---- MODULE Spec2Model ----
(***************************************************************************)
(* Model of the template-driven image render API                           *)
(* (src/server.js, src/api/render.js, src/api/template.js).                *)
(*                                                                         *)
(* Strings are sequences of lexemes.  A lexeme is one character ("{", "}", *)
(* " ", "-") or a run of characters that the placeholder pattern treats    *)
(* as one unit: a run of word characters (an identifier such as            *)
(* "badge_color") or a run that holds a non-word character (a path such as *)
(* "photo.png", a colour such as "#FF0000").                               *)
(***************************************************************************)
EXTENDS Integers, Sequences, FiniteSets, TLC

VARIABLES
    deployment,         \* "server": server.js; "api": the handlers of api/
    templateDefinition, \* the module variable of server.js or of api/render.js
    heap,               \* the template objects: JSON.parse result, request bodies
    templateFile,       \* templates/template.json
    assetsBackground,   \* whether assets/background.png can be loaded
    publicFiles,        \* public/<uuid>.png, by the render that wrote it
    render,             \* one POST /render request each
    put,                \* one PUT /api/template request each
    rpValue,    \* resolvePlaceholders: the argument `value`
    rpData,     \* resolvePlaceholders: the argument `data`
    rpResult,   \* resolvePlaceholders: what the call returned
    rpTwice,    \* resolvePlaceholders applied to its own result
    rpPc,       \* "call" before the call, "returned" after it
    fnName,     \* the piece of code exercised on its own, "none" otherwise
    fnArgs,     \* its inputs
    fnResult,   \* what it produced, once it has run
    templateJs, \* the module variable templateDefinition of api/template.js
    get         \* one GET /api/template request each

serverVars == <<deployment, templateDefinition, heap, templateFile, assetsBackground,
                publicFiles, render, put>>

rpVars == <<rpValue, rpData, rpResult, rpTwice, rpPc>>

fnVars == <<fnName, fnArgs, fnResult>>

tplVars == <<templateJs, get>>

vars == <<serverVars, rpVars, fnVars, tplVars>>

----------------------------------------------------------------------------
(* JavaScript values *)

Undefined == [t |-> "undefined"]
Null == [t |-> "null"]

Str(s) == [t |-> "str", s |-> s]

Num(n) == [t |-> "num", n |-> n]

Bool(b) == [t |-> "bool", b |-> b]

\* Lexemes made of word characters only (\w = [A-Za-z0-9_]).
WordLexemes ==
    {"a", "b", "photo", "badge_color", "border_color", "sales_name",
     "constructor", "missing"}

\* Whitespace (\s).
SpaceLexemes == {" "}

IsWord(c) == c \in WordLexemes

IsSpace(c) == c \in SpaceLexemes

\* Properties every plain object inherits from Object.prototype; req.body is
\* a plain object, so data[key] finds them when data has no own key of that name.
ObjectPrototype ==
    [k \in {<<"constructor">>} |->
        [t |-> "function", src |-> <<"function Object() { [native code] }">>]]

\* data[key]: own property first, then the prototype chain, else undefined.
GetProperty(data, key) ==
    IF key \in DOMAIN data THEN data[key]
    ELSE IF key \in DOMAIN ObjectPrototype THEN ObjectPrototype[key]
    ELSE Undefined

\* a ?? b
Nullish(a, b) == IF a.t \in {"undefined", "null"} THEN b ELSE a

\* String(v), the coercion String.prototype.replace applies to what the
\* replacer callback returns.
ToStringJS(v) ==
    CASE v.t = "str" -> v.s
      [] v.t = "num" -> <<ToString(v.n)>>
      [] v.t = "bool" -> IF v.b THEN <<"true">> ELSE <<"false">>
      [] v.t = "function" -> v.src
      [] v.t = "null" -> <<"null">>
      [] OTHER -> <<"undefined">>

----------------------------------------------------------------------------
(* resolvePlaceholders: the pattern /\{\{\s*(\w+)\s*\}\}/g *)

RECURSIVE SkipWhileSpace(_, _)
\* first index >= i of s that is not whitespace (Len(s)+1 at the end): \s*
SkipWhileSpace(s, i) ==
    IF i <= Len(s) /\ IsSpace(s[i]) THEN SkipWhileSpace(s, i + 1) ELSE i

RECURSIVE SkipWhileWord(_, _)
\* first index >= i of s that is not a word lexeme: \w+ is greedy
SkipWhileWord(s, i) ==
    IF i <= Len(s) /\ IsWord(s[i]) THEN SkipWhileWord(s, i + 1) ELSE i

\* MatchAt with \w* for \w+: an empty identifier matches.
MatchAtEmptyKey(s, i) ==
    LET n == Len(s)
        k1 == SkipWhileSpace(s, i + 2)
        k2 == SkipWhileWord(s, k1)
        k3 == SkipWhileSpace(s, k2)
    IN  IF /\ i + 1 <= n
           /\ s[i] = "{" /\ s[i + 1] = "{"
           /\ k3 + 1 <= n
           /\ s[k3] = "}" /\ s[k3 + 1] = "}"
        THEN [len |-> k3 + 2 - i, key |-> SubSeq(s, k1, k2 - 1)]
        ELSE [len |-> 0, key |-> <<>>]

\* The match of the pattern that starts at index i, len = 0 when there is none.
MatchAt(s, i) ==
    LET n == Len(s)
        k1 == SkipWhileSpace(s, i + 2)
        k2 == SkipWhileWord(s, k1)
        k3 == SkipWhileSpace(s, k2)
    IN  IF /\ i + 1 <= n
           /\ s[i] = "{" /\ s[i + 1] = "{"
           /\ k2 > k1
           /\ k3 + 1 <= n
           /\ s[k3] = "}" /\ s[k3 + 1] = "}"
        THEN [len |-> k3 + 2 - i, key |-> SubSeq(s, k1, k2 - 1)]
        ELSE [len |-> 0, key |-> <<>>]

\* The replacer callback: (_, key) => data[key] ?? ""
Replacer(key, data) == Nullish(GetProperty(data, key), Str(<<>>))

RECURSIVE ReplaceFrom(_, _, _)
\* value.replace(pattern, callback) from index i on: leftmost match first,
\* the scan resumes after the match, the substituted text is not scanned.
ReplaceFrom(s, i, data) ==
    IF i > Len(s) THEN <<>>
    ELSE LET m == MatchAt(s, i)
         IN  IF m.len > 0
             THEN ToStringJS(Replacer(m.key, data)) \o ReplaceFrom(s, i + m.len, data)
             ELSE <<s[i]>> \o ReplaceFrom(s, i + 1, data)

\* resolvePlaceholders that resolves the tokens of its own result once more.
resolvePlaceholdersTwice(value, data) ==
    IF value.t # "str" THEN value
    ELSE Str(ReplaceFrom(ReplaceFrom(value.s, 1, data), 1, data))

resolvePlaceholders(value, data) ==
    IF value.t # "str" THEN value
    ELSE Str(ReplaceFrom(value.s, 1, data))

----------------------------------------------------------------------------
(* Bounds *)

\* concurrent POST /render requests, numbered in order of arrival
NRenders == 1

\* PUT /api/template requests, numbered in order of arrival
NPuts == 1

\* pixels (0..MaxProbe in both directions) at which surfaces are compared
MaxProbe == 4

\* pieces a resolvePlaceholders argument is concatenated from
MaxPieces == 3

\* widths and heights (0..MaxSide) of the elements painted on their own
MaxSide == 4

Renders == 1..NRenders

Puts == 1..NPuts

\* Template objects: 0 is what JSON.parse gave at startup, p the body of PUT
\* request p, NPuts + r what JSON.parse gave to the lazy load of request r.
ObjectIds == 0..(NPuts + NRenders)

----------------------------------------------------------------------------
(* Templates, elements and request bodies *)

Ref(id) == [t |-> "object", id |-> id]

Arr(seq) == [t |-> "array", items |-> seq]

\* An element object none of whose fields is set.
BaseElement ==
    [type |-> Undefined, name |-> Undefined, x |-> Undefined, y |-> Undefined,
     width |-> Undefined, height |-> Undefined, source |-> Undefined,
     clip |-> Undefined, border |-> Undefined, radius |-> Undefined,
     color |-> Undefined, text |-> Undefined, align |-> Undefined,
     font |-> Undefined, fontSize |-> Undefined]

Border(w, c) == [t |-> "object", width |-> w, color |-> c]

Box(el, x, y, w, h) ==
    [el EXCEPT !.x = Num(x), !.y = Num(y), !.width = Num(w), !.height = Num(h)]

RectElement(x, y, w, h, color) ==
    [Box(BaseElement, x, y, w, h) EXCEPT !.type = Str(<<"rectangle">>), !.color = color]

ImageElement(x, y, w, h, source, clip, border) ==
    [Box(BaseElement, x, y, w, h) EXCEPT
        !.type = Str(<<"image">>), !.source = source, !.clip = clip, !.border = border]

TextElement(x, y, text, color, align) ==
    [BaseElement EXCEPT !.type = Str(<<"text">>), !.x = Num(x), !.y = Num(y),
                        !.text = text, !.color = color, !.align = align]

Token(key) == <<"{", "{", key, "}", "}">>

RectRed == RectElement(0, 0, 4, 4, Str(<<"#FF0000">>))

RectGreen == RectElement(0, 0, 4, 4, Str(<<"#00FF00">>))

RectBadge == RectElement(1, 1, 2, 2, Str(<<"{", "{", " ", "badge_color", " ", "}", "}">>))

PhotoElement ==
    ImageElement(0, 0, 2, 2, Str(Token("photo")), Str(<<"circle">>),
                 Border(Num(2), Str(Token("border_color"))))

BrokenImageElement ==
    ImageElement(1, 1, 2, 2, Str(<<"http://", "cdn/404.png">>), Undefined, Undefined)

UnknownElement == [BaseElement EXCEPT !.type = Str(<<"video">>), !.source = Str(<<"clip.mp4">>)]

NameText == TextElement(2, 2, Str(Token("sales_name")), Undefined, Str(<<"CENTER">>))

Template(background, elements) == [background |-> background, elements |-> elements]

\* The template of templates/template.json when the server starts.
BootTemplate ==
    Template(Str(<<"bgA.png">>), Arr(<<RectRed, PhotoElement, RectGreen>>))

BrokenTemplate ==
    Template(Str(<<"nobg.png">>), Arr(<<RectBadge, BrokenImageElement>>))

SkipTemplate ==
    Template(Str(<<"bgB.png">>), Arr(<<UnknownElement, NameText, RectBadge>>))

EmptyTemplate == Template(Undefined, Arr(<<>>))

\* Request bodies of PUT /api/template.
PutBodies ==
    {SkipTemplate,
     Template(Str(<<"bgB.png">>), Undefined),
     Template(Undefined, Str(<<"elements">>))}

\* What templates/template.json holds when the server starts.
BootFiles ==
    {[exists |-> TRUE, json |-> BootTemplate],
     [exists |-> TRUE, json |-> EmptyTemplate],
     [exists |-> TRUE, json |-> BrokenTemplate],
     [exists |-> FALSE]}

\* Request bodies of POST /render.
RenderBodies ==
    {(<<"photo">> :> Str(<<"photo.png">>) @@
         <<"badge_color">> :> Str(<<"#00FF00">>) @@
         <<"border_color">> :> Str(<<"#0000FF">>) @@
         <<"sales_name">> :> Str(<<"Ann">>)),
     (<<"photo">> :> Str(<<"http://", "cdn/ok.png">>) @@
         <<"badge_color">> :> Null),
     (<<"photo">> :> Str(<<"http://", "cdn/bad.bin">>)),
     [k \in {} |-> Undefined]}

----------------------------------------------------------------------------
(* The collaborators: file system, network, image decoder *)

\* process.cwd()
Cwd == <<"/app/">>

\* path.isAbsolute(p)
IsAbsolute(p) == Len(p) > 0 /\ p[1] \in {"/", "/app/"}

\* path.isAbsolute(p) ? p : path.join(process.cwd(), p)
ResolvePath(p) == IF IsAbsolute(p) THEN p ELSE Cwd \o p

\* path.join(assetsDir, "background.png")
FallbackBg == <<"/app/", "assets/", "background.png">>

\* The image files of the deployment other than the fallback background.
LocalImages ==
    (<<"/app/", "bgA.png">> :> [id |-> "bgA", width |-> 4, height |-> 3]) @@
    (<<"/app/", "bgB.png">> :> [id |-> "bgB", width |-> 3, height |-> 4]) @@
    (<<"/app/", "photo.png">> :> [id |-> "photo", width |-> 2, height |-> 2])

\* loadImage(path): the decoded image, or a rejection.
LoadImage(path, assetsOk) ==
    IF path \in DOMAIN LocalImages
    THEN [ok |-> TRUE, img |-> LocalImages[path]]
    ELSE IF path = FallbackBg /\ assetsOk
    THEN [ok |-> TRUE, img |-> [id |-> "background", width |-> 5, height |-> 5]]
    ELSE [ok |-> FALSE]

\* fetch(url): a response, or a rejection when the host cannot be reached.
Fetch(url) ==
    CASE url = <<"http://", "cdn/ok.png">> ->
            [settled |-> "resolved", ok |-> TRUE, status |-> 200, bytes |-> "png"]
      [] url = <<"http://", "cdn/bad.bin">> ->
            [settled |-> "resolved", ok |-> TRUE, status |-> 200, bytes |-> "garbage"]
      [] url = <<"http://", "cdn/404.png">> ->
            [settled |-> "resolved", ok |-> FALSE, status |-> 404, bytes |-> "html"]
      [] OTHER -> [settled |-> "rejected"]

\* loadImage(buffer)
DecodeImage(bytes) ==
    IF bytes = "png"
    THEN [ok |-> TRUE, img |-> [id |-> "remote", width |-> 2, height |-> 2]]
    ELSE [ok |-> FALSE]

\* JSON.stringify(newTemplate, null, 2) and JSON.parse of the file's text.
JsonStringify(obj) == [exists |-> TRUE, json |-> obj]

----------------------------------------------------------------------------
(* The canvas: a surface is its size and the paint operations applied to  *)
(* it, in order; coordinates of paths are doubled to stay integral.       *)

\* the side of the surface when the background has no size of its own
DefaultSize == 1080

Min(a, b) == IF a <= b THEN a ELSE b

Max(a, b) == IF a >= b THEN a ELSE b

\* createCanvas(width, height)
CreateCanvas(w, h) == [width |-> w, height |-> h, ops |-> <<>>]

\* canvas.getContext("2d"): the initial drawing state
GetContext ==
    [fillStyle |-> <<"#000000">>, font |-> <<"10px sans-serif">>,
     textAlign |-> "start", path |-> <<>>, clip |-> <<>>, stack |-> <<>>]

\* Colour strings the canvas accepts; an assignment of any other value to
\* ctx.fillStyle is ignored.
CssColors ==
    {<<"#000000">>, <<"#FF0000">>, <<"#00FF00">>, <<"#0000FF">>, <<"#ffffff">>}

SetFillStyle(ctx, value) ==
    IF value.t = "str" /\ value.s \in CssColors
    THEN [ctx EXCEPT !.fillStyle = value.s]
    ELSE ctx

\* ArcPath that takes the radius for the diameter.
ArcPathHalved(cx2, cy2, rad2) ==
    <<[shape |-> "arc", cx2 |-> cx2, cy2 |-> cy2, rad2 |-> rad2 \div 2]>>

\* ctx.beginPath(); ctx.arc(cx, cy, radius, 0, 2 * Math.PI)
ArcPath(cx2, cy2, rad2) == <<[shape |-> "arc", cx2 |-> cx2, cy2 |-> cy2, rad2 |-> rad2]>>

\* drawRoundedRect whose radius is not limited by the sides.
drawRoundedRectUnclamped(ctx, x, y, width, height, radius) ==
    LET r2 == Max(0, 2 * radius)
    IN  [ctx EXCEPT !.path = <<[shape |-> "roundedRect", x |-> x, y |-> y,
                                width |-> width, height |-> height, r2 |-> r2]>>]

\* drawRoundedRect(ctx, x, y, width, height, radius)
drawRoundedRect(ctx, x, y, width, height, radius) ==
    LET r2 == Max(0, Min(2 * radius, Min(width, height)))
    IN  [ctx EXCEPT !.path = <<[shape |-> "roundedRect", x |-> x, y |-> y,
                                width |-> width, height |-> height, r2 |-> r2]>>]

\* Whether the centre of pixel (px, py) lies inside the corner that a
\* quadratic curve with control point at the corner cuts, u2 and v2 being the
\* doubled distances of the centre from the two sides that meet there.
InsideCorner(u2, v2, r2) ==
    \/ u2 >= r2
    \/ v2 >= r2
    \/ u2 + v2 >= r2
    \/ 4 * u2 * v2 >= (r2 - u2 - v2) * (r2 - u2 - v2)

\* Whether the centre of pixel (px, py) lies inside a path shape.
ShapeCovers(sh, px, py) ==
    IF sh.shape = "arc"
    THEN (2 * px + 1 - sh.cx2) * (2 * px + 1 - sh.cx2)
            + (2 * py + 1 - sh.cy2) * (2 * py + 1 - sh.cy2) <= sh.rad2 * sh.rad2
    ELSE /\ sh.x <= px /\ px < sh.x + sh.width
         /\ sh.y <= py /\ py < sh.y + sh.height
         /\ InsideCorner(Min(2 * px + 1 - 2 * sh.x, 2 * (sh.x + sh.width) - 2 * px - 1),
                         Min(2 * py + 1 - 2 * sh.y, 2 * (sh.y + sh.height) - 2 * py - 1),
                         sh.r2)

PathCovers(path, px, py) == \E i \in 1..Len(path) : ShapeCovers(path[i], px, py)

\* The clip region is the intersection of the paths clipped to so far.
ClipCovers(clip, px, py) == \A i \in 1..Len(clip) : PathCovers(clip[i], px, py)

\* Whether a paint operation writes pixel (px, py).
OpCovers(op, px, py) ==
    /\ ClipCovers(op.clip, px, py)
    /\ CASE op.kind = "drawImage" ->
                /\ op.x <= px /\ px < op.x + op.w
                /\ op.y <= py /\ py < op.y + op.h
         [] op.kind = "fill" -> PathCovers(op.path, px, py)
         [] OTHER -> FALSE

\* The colour an operation writes: the fill colour, or the image's pixels.
OpColor(op) == IF op.kind = "fill" THEN op.style ELSE <<"image", op.img>>

RECURSIVE PixelOf(_, _, _, _)
\* The colour of pixel (px, py) after the first n operations: that of the
\* last one that writes it (opaque paint).
PixelOf(ops, n, px, py) ==
    IF n = 0 THEN <<"transparent">>
    ELSE IF OpCovers(ops[n], px, py) THEN OpColor(ops[n])
    ELSE PixelOf(ops, n - 1, px, py)

PixelAt(canvas, px, py) ==
    IF px < canvas.width /\ py < canvas.height
    THEN PixelOf(canvas.ops, Len(canvas.ops), px, py)
    ELSE <<"outside">>

----------------------------------------------------------------------------
(* POST /render of server.js.  A request runs from one await to the next  *)
(* without interruption; pc names the await it is suspended at.           *)

IdleRender ==
    [pc |-> "idle", data |-> Undefined, background |-> Undefined,
     bgImage |-> Null, canvas |-> Null, ctx |-> Null, elements |-> Null,
     idx |-> 0, source |-> <<>>, resp |-> Null, thrown |-> Null, response |-> Null]

\* value is truthy (strings, undefined and null only)
Truthy(value) == value.t = "str" /\ Len(value.s) > 0

\* element.x ?? 0 and the like, for numeric fields
NumberOr(value, default) == IF value.t = "num" THEN value.n ELSE default

\* Catch that swallows the error and goes on to save what was painted.
CatchAndSave(rs, err) == [rs EXCEPT !.pc = "encoded", !.thrown = err]

\* catch (err) { res.status(500).send({ error: "Image generation failed" }) }
\* err is what console.error logs; the response does not carry it.
Catch(rs, err) ==
    [rs EXCEPT !.pc = "done", !.thrown = err,
               !.response = [status |-> 500, error |-> "Image generation failed"]]

\* templateDefinition?.background
TemplateBackground(tdef, hp) ==
    IF tdef = Null THEN Undefined ELSE hp[tdef.id].background

\* templateDefinition?.elements
TemplateElements(tdef, hp) ==
    IF tdef = Null THEN Undefined ELSE hp[tdef.id].elements

\* value?.length is truthy
HasLength(value) ==
    \/ value.t = "array" /\ Len(value.items) > 0
    \/ value.t = "str" /\ Len(value.s) > 0

\* ctx.save()
Save(ctx) ==
    [ctx EXCEPT !.stack = Append(@, [fillStyle |-> ctx.fillStyle, font |-> ctx.font,
                                     textAlign |-> ctx.textAlign, clip |-> ctx.clip])]

\* Restore that brings back everything but the clip region.
RestoreKeepsClip(ctx) ==
    IF Len(ctx.stack) = 0 THEN ctx
    ELSE LET top == ctx.stack[Len(ctx.stack)]
         IN  [ctx EXCEPT !.fillStyle = top.fillStyle, !.font = top.font,
                         !.textAlign = top.textAlign,
                         !.stack = SubSeq(@, 1, Len(@) - 1)]

\* ctx.restore()
Restore(ctx) ==
    IF Len(ctx.stack) = 0 THEN ctx
    ELSE LET top == ctx.stack[Len(ctx.stack)]
         IN  [ctx EXCEPT !.fillStyle = top.fillStyle, !.font = top.font,
                         !.textAlign = top.textAlign, !.clip = top.clip,
                         !.stack = SubSeq(@, 1, Len(@) - 1)]

\* Clip that leaves the clip region as it is.
ClipIgnored(ctx) == ctx

\* ctx.clip(): the clip region is intersected with the current path
Clip(ctx) == [ctx EXCEPT !.clip = Append(@, ctx.path)]

\* Fill that paints behind what is on the surface (destination-over).
FillBehind(rs) ==
    [rs EXCEPT !.canvas.ops =
        <<[kind |-> "fill", el |-> rs.idx, path |-> rs.ctx.path,
           style |-> rs.ctx.fillStyle, clip |-> rs.ctx.clip]>> \o @]

\* ctx.fill() by element number el of the loop
Fill(rs) ==
    [rs EXCEPT !.canvas.ops =
        Append(@, [kind |-> "fill", el |-> rs.idx, path |-> rs.ctx.path,
                   style |-> rs.ctx.fillStyle, clip |-> rs.ctx.clip])]

\* ctx.drawImage(img, x, y, w, h)
DrawImage(rs, img, x, y, w, h) ==
    [rs EXCEPT !.canvas.ops =
        Append(@, [kind |-> "drawImage", el |-> rs.idx, img |-> img.id,
                   x |-> x, y |-> y, w |-> w, h |-> h, clip |-> rs.ctx.clip])]

\* ctx.fillText(text, x, y); the pixels of the glyphs are not modelled
FillText(rs, text, x, y) ==
    [rs EXCEPT !.canvas.ops =
        Append(@, [kind |-> "fillText", el |-> rs.idx, text |-> text,
                   x |-> x, y |-> y, font |-> rs.ctx.font, style |-> rs.ctx.fillStyle,
                   textAlign |-> rs.ctx.textAlign, clip |-> rs.ctx.clip])]

\* String.prototype.toLowerCase on the align values of the templates
ToLowerCase(s) ==
    [i \in 1..Len(s) |->
        CASE s[i] \in {"CENTER", "Center"} -> "center"
          [] s[i] \in {"RIGHT", "Right"} -> "right"
          [] s[i] \in {"LEFT", "Left"} -> "left"
          [] s[i] = "Justify" -> "justify"
          [] OTHER -> s[i]]

\* PaintBackground on a surface of the default size whatever the background.
PaintBackgroundFixedSize(rs, bgImage) ==
    LET sized == [rs EXCEPT !.bgImage = bgImage, !.idx = 0,
                            !.canvas = CreateCanvas(DefaultSize, DefaultSize),
                            !.ctx = GetContext]
    IN  DrawImage(sized, bgImage, 0, 0, DefaultSize, DefaultSize)

\* server.js 139-145: the surface takes the background's size and the
\* background is drawn over all of it.
PaintBackground(rs, bgImage) ==
    LET width == IF bgImage.width # 0 THEN bgImage.width ELSE DefaultSize
        height == IF bgImage.height # 0 THEN bgImage.height ELSE DefaultSize
        sized == [rs EXCEPT !.bgImage = bgImage, !.idx = 0,
                            !.canvas = CreateCanvas(width, height),
                            !.ctx = GetContext]
    IN  DrawImage(sized, bgImage, 0, 0, width, height)

\* server.js 198-209: a rectangle element
PaintRectangle(rs, element) ==
    LET x == NumberOr(element.x, 0)
        y == NumberOr(element.y, 0)
        w == NumberOr(element.width, 0)
        h == NumberOr(element.height, 0)
        radius == NumberOr(element.radius, 0)
        color == resolvePlaceholders(Nullish(element.color, Str(<<"#000000">>)), rs.data)
        pathed == drawRoundedRect(rs.ctx, x, y, w, h, radius)
    IN  Fill([rs EXCEPT !.ctx = SetFillStyle(pathed, color)])

\* line 217: element.align || "left"; a number other than 0 is truthy
AlignOrLeft(value) ==
    IF Truthy(value) \/ (value.t = "num" /\ value.n # 0) THEN value ELSE Str(<<"left">>)

\* server.js 210-226: a text element
PaintText(rs, element) ==
    LET x == NumberOr(element.x, 0)
        y == NumberOr(element.y, 0)
        fontSize == NumberOr(element.fontSize, 24)
        color == resolvePlaceholders(Nullish(element.color, Str(<<"#000000">>)), rs.data)
        text == resolvePlaceholders(Nullish(element.text, Str(<<>>)), rs.data)
        alignValue == AlignOrLeft(element.align)
        align == ToLowerCase(alignValue.s)
        fontFamilyRaw == IF Truthy(element.font) THEN element.font ELSE Str(<<"DB-Adman-X">>)
        resolvedFamily == resolvePlaceholders(fontFamilyRaw, rs.data)
        fontFamily == IF Truthy(resolvedFamily) THEN resolvedFamily.s ELSE <<"DB-Adman-X">>
        styled == [SetFillStyle(rs.ctx, color) EXCEPT
                     !.font = <<ToString(fontSize), "px", " ">> \o fontFamily,
                     !.textAlign = IF align \in {<<"left">>, <<"right">>, <<"center">>}
                                   THEN align[1] ELSE "left"]
    IN  \* line 217: .toLowerCase() of a value that is no string throws
        IF alignValue.t # "str" THEN Catch(rs, [cause |-> "TypeError"])
        ELSE FillText([rs EXCEPT !.ctx = styled], ToStringJS(text), x, y)

\* PaintImage that paints the border disc after the image.
PaintImageDiscLast(rs, element, imageObj) ==
    LET x == NumberOr(element.x, 0)
        y == NumberOr(element.y, 0)
        w == NumberOr(element.width, 0)
        h == NumberOr(element.height, 0)
        border == element.border
        hasBorder == border.t = "object"
        hasCircleClip == element.clip = Str(<<"circle">>)
        borderWidth == IF hasBorder THEN NumberOr(border.width, 0) ELSE 0
        drawBorder == hasCircleClip /\ hasBorder /\ borderWidth # 0 /\ Truthy(border.color)
        resolvedColor == IF drawBorder THEN resolvePlaceholders(border.color, rs.data)
                         ELSE Undefined
        borderColor == IF Truthy(resolvedColor) THEN resolvedColor ELSE Str(<<"#000000">>)
        saved == Save(rs.ctx)
        clipped == IF hasCircleClip
                   THEN Clip([saved EXCEPT !.path = ArcPath(2 * x + w, 2 * y + h, Min(w, h))])
                   ELSE saved
        drawn == DrawImage([rs EXCEPT !.ctx = clipped], imageObj, x, y, w, h)
        restored == [drawn EXCEPT !.ctx = Restore(drawn.ctx)]
        discPath == [restored.ctx EXCEPT
                       !.path = ArcPath(2 * x + w, 2 * y + h, Min(w, h) + borderWidth)]
    IN  IF drawBorder
        THEN Fill([restored EXCEPT !.ctx = SetFillStyle(discPath, borderColor)])
        ELSE restored

\* server.js 181-196: the border disc, the clip and the image of an image
\* element whose image has been acquired
PaintImage(rs, element, imageObj) ==
    LET x == NumberOr(element.x, 0)
        y == NumberOr(element.y, 0)
        w == NumberOr(element.width, 0)
        h == NumberOr(element.height, 0)
        border == element.border
        hasBorder == border.t = "object"
        hasCircleClip == element.clip = Str(<<"circle">>)
        borderWidth == IF hasBorder THEN NumberOr(border.width, 0) ELSE 0
        drawBorder == hasCircleClip /\ hasBorder /\ borderWidth # 0 /\ Truthy(border.color)
        resolvedColor == IF drawBorder THEN resolvePlaceholders(border.color, rs.data)
                         ELSE Undefined
        borderColor == IF Truthy(resolvedColor) THEN resolvedColor ELSE Str(<<"#000000">>)
        discPath == [rs.ctx EXCEPT
                       !.path = ArcPath(2 * x + w, 2 * y + h, Min(w, h) + borderWidth)]
        bordered == IF drawBorder
                    THEN Fill([rs EXCEPT !.ctx = SetFillStyle(discPath, borderColor)])
                    ELSE rs
        saved == Save(bordered.ctx)
        clipped == IF hasCircleClip
                   THEN Clip([saved EXCEPT !.path = ArcPath(2 * x + w, 2 * y + h, Min(w, h))])
                   ELSE saved
        drawn == DrawImage([bordered EXCEPT !.ctx = clipped], imageObj, x, y, w, h)
    IN  [drawn EXCEPT !.ctx = Restore(drawn.ctx)]

\* StartImage that fetches the sources that start with http:// only.
StartImageHttpOnly(rs, element) ==
    LET source == resolvePlaceholders(Nullish(element.source, Str(<<>>)), rs.data)
    IN  IF source.t # "str" THEN Catch(rs, [cause |-> "TypeError"])
        ELSE IF Len(source.s) > 0 /\ source.s[1] = "http://"
        THEN [rs EXCEPT !.pc = "awaitFetch", !.source = source.s]
        ELSE [rs EXCEPT !.pc = "awaitLocal", !.source = ResolvePath(source.s)]

\* server.js 151-179: an image element up to its first await
StartImage(rs, element) ==
    LET source == resolvePlaceholders(Nullish(element.source, Str(<<>>)), rs.data)
    IN  IF source.t # "str" THEN Catch(rs, [cause |-> "TypeError"])
        ELSE IF Len(source.s) > 0 /\ source.s[1] \in {"http://", "https://"}
        THEN [rs EXCEPT !.pc = "awaitFetch", !.source = source.s]
        ELSE [rs EXCEPT !.pc = "awaitLocal", !.source = ResolvePath(source.s)]

\* the element the loop is at
CurrentElement(rs, hp) == hp[rs.elements.id].elements.items[rs.idx]

RECURSIVE RunLoop(_, _)

\* RunLoop that throws on an element of unknown type.
RunLoopStrict(rs, hp) ==
    IF rs.idx > Len(hp[rs.elements.id].elements.items)
    THEN [rs EXCEPT !.pc = "encoded"]
    ELSE LET element == CurrentElement(rs, hp)
             type == element.type
         IN  CASE type = Str(<<"image">>) -> StartImage(rs, element)
               [] type = Str(<<"rectangle">>) ->
                    RunLoop([PaintRectangle(rs, element) EXCEPT !.idx = rs.idx + 1], hp)
               [] type = Str(<<"text">>) ->
                    IF PaintText(rs, element).pc = "done" THEN PaintText(rs, element)
                    ELSE RunLoop([PaintText(rs, element) EXCEPT !.idx = rs.idx + 1], hp)
               [] OTHER -> Catch(rs, [cause |-> "unknown element type"])

\* server.js 149-231: the for-of loop from element rs.idx on, up to the next
\* await, that of an image element, or to canvas.toBuffer after the loop
\* (pc "encoded": server.js then awaits the file write).
RunLoop(rs, hp) ==
    IF rs.idx > Len(hp[rs.elements.id].elements.items)
    THEN [rs EXCEPT !.pc = "encoded"]
    ELSE LET element == CurrentElement(rs, hp)
             type == element.type
         IN  CASE type = Str(<<"image">>) -> StartImage(rs, element)
               [] type = Str(<<"rectangle">>) ->
                    RunLoop([PaintRectangle(rs, element) EXCEPT !.idx = rs.idx + 1], hp)
               [] type = Str(<<"text">>) ->
                    IF PaintText(rs, element).pc = "done" THEN PaintText(rs, element)
                    ELSE RunLoop([PaintText(rs, element) EXCEPT !.idx = rs.idx + 1], hp)
               [] OTHER -> RunLoop([rs EXCEPT !.idx = rs.idx + 1], hp)

\* server.js 139-149: from the loaded background to the first await after it.
\* templateDefinition is read again here, after the awaits of the background.
\* rs.elements refers to the object whose elements array the loop is over.
Compose(rs, bgImage, tdef, hp) ==
    LET painted == [PaintBackground(rs, bgImage) EXCEPT !.elements = tdef]
    IN  IF HasLength(TemplateElements(tdef, hp))
        THEN RunLoop([painted EXCEPT !.idx = 1], hp)
        ELSE [painted EXCEPT !.pc = "encoded"]

\* the image element's image has been acquired: paint it and go on
AfterImage(rs, imageObj, hp) ==
    RunLoop([PaintImage(rs, CurrentElement(rs, hp), imageObj) EXCEPT !.idx = rs.idx + 1], hp)

----------------------------------------------------------------------------
(* The requests of server.js *)

\* RenderStart that stores the resolved background back into the template.
RenderStartWriteBack(r, body) ==
    /\ deployment = "server"
    /\ render[r].pc = "idle"
    /\ \A q \in DOMAIN render : q < r => render[q].pc # "idle"
    /\ LET background == TemplateBackground(templateDefinition, heap)
           rs == [render[r] EXCEPT !.data = body, !.background = background]
       IN  IF Truthy(background)
           THEN /\ render' = [render EXCEPT ![r] =
                     [rs EXCEPT !.pc = "awaitBg",
                        !.source = ResolvePath(resolvePlaceholders(background, body).s)]]
                /\ heap' = [heap EXCEPT ![templateDefinition.id].background =
                     Str(ResolvePath(resolvePlaceholders(background, body).s))]
           ELSE /\ render' = [render EXCEPT ![r] = [rs EXCEPT !.pc = "awaitFallback"]]
                /\ heap' = heap
    /\ UNCHANGED <<deployment, templateDefinition, templateFile,
                   assetsBackground, publicFiles, put>>

\* line 110-137: the handler up to the await of the first background load
RenderStart(r, body) ==
    /\ deployment = "server"
    /\ render[r].pc = "idle"
    /\ \A q \in DOMAIN render : q < r => render[q].pc # "idle"
    /\ LET background == TemplateBackground(templateDefinition, heap)
           rs == [render[r] EXCEPT !.data = body, !.background = background]
       IN  render' = [render EXCEPT ![r] =
             IF Truthy(background)
             THEN [rs EXCEPT !.pc = "awaitBg",
                             !.source = ResolvePath(resolvePlaceholders(background, body).s)]
             ELSE [rs EXCEPT !.pc = "awaitFallback"]]
    /\ UNCHANGED <<deployment, templateDefinition, heap, templateFile,
                   assetsBackground, publicFiles, put>>

\* line 126-137: loadImage(resolvedBgPath) settles
RenderBgLoaded(r) ==
    /\ deployment = "server"
    /\ render[r].pc = "awaitBg"
    /\ LET loaded == LoadImage(render[r].source, assetsBackground)
       IN  render' = [render EXCEPT ![r] =
             IF loaded.ok
             THEN Compose(render[r], loaded.img, templateDefinition, heap)
             ELSE [render[r] EXCEPT !.pc = "awaitFallback"]]
    /\ UNCHANGED <<deployment, templateDefinition, heap, templateFile,
                   assetsBackground, publicFiles, put>>

\* line 135: loadImage(fallbackBg) settles; a rejection is not caught here
RenderFallbackLoaded(r) ==
    /\ deployment = "server"
    /\ render[r].pc = "awaitFallback"
    /\ LET loaded == LoadImage(FallbackBg, assetsBackground)
       IN  render' = [render EXCEPT ![r] =
             IF loaded.ok
             THEN Compose(render[r], loaded.img, templateDefinition, heap)
             ELSE Catch(render[r], [cause |-> "loadImage", path |-> FallbackBg])]
    /\ UNCHANGED <<deployment, templateDefinition, heap, templateFile,
                   assetsBackground, publicFiles, put>>

\* element.name || "image"
ElementName(element) == IF Truthy(element.name) THEN element.name.s ELSE <<"image">>

\* line 167-170: fetch(source) settles
RenderFetched(r) ==
    /\ deployment = "server"
    /\ render[r].pc = "awaitFetch"
    /\ LET resp == Fetch(render[r].source)
       IN  render' = [render EXCEPT ![r] =
             IF resp.settled = "rejected"
             THEN Catch(render[r], [cause |-> "fetch"])
             ELSE IF ~resp.ok
             THEN Catch(render[r],
                        [cause |-> "Failed to fetch image",
                         name |-> ElementName(CurrentElement(render[r], heap)),
                         status |-> resp.status])
             ELSE [render[r] EXCEPT !.pc = "awaitArrayBuffer", !.resp = resp]]
    /\ UNCHANGED <<deployment, templateDefinition, heap, templateFile,
                   assetsBackground, publicFiles, put>>

\* line 171: resp.arrayBuffer() settles
RenderArrayBuffer(r) ==
    /\ deployment = "server"
    /\ render[r].pc = "awaitArrayBuffer"
    /\ render' = [render EXCEPT ![r].pc = "awaitDecode"]
    /\ UNCHANGED <<deployment, templateDefinition, heap, templateFile,
                   assetsBackground, publicFiles, put>>

\* line 172-197: loadImage(buf) settles
RenderDecoded(r) ==
    /\ deployment = "server"
    /\ render[r].pc = "awaitDecode"
    /\ LET decoded == DecodeImage(render[r].resp.bytes)
       IN  render' = [render EXCEPT ![r] =
             IF decoded.ok
             THEN AfterImage(render[r], decoded.img, heap)
             ELSE Catch(render[r], [cause |-> "loadImage"])]
    /\ UNCHANGED <<deployment, templateDefinition, heap, templateFile,
                   assetsBackground, publicFiles, put>>

\* RenderLocalLoaded whose failure ends every request in flight.
RenderLocalLoadedFailsAll(r) ==
    /\ deployment = "server"
    /\ render[r].pc = "awaitLocal"
    /\ LET loaded == LoadImage(render[r].source, assetsBackground)
           err == [cause |-> "loadImage", path |-> render[r].source]
       IN  render' = IF loaded.ok
                     THEN [render EXCEPT ![r] = AfterImage(render[r], loaded.img, heap)]
                     ELSE [q \in DOMAIN render |->
                             IF q = r \/ render[q].pc \notin {"idle", "done"}
                             THEN Catch(render[q], err) ELSE render[q]]
    /\ UNCHANGED <<deployment, templateDefinition, heap, templateFile,
                   assetsBackground, publicFiles, put>>

\* line 177-197: loadImage(localPath) settles
RenderLocalLoaded(r) ==
    /\ deployment = "server"
    /\ render[r].pc = "awaitLocal"
    /\ LET loaded == LoadImage(render[r].source, assetsBackground)
       IN  render' = [render EXCEPT ![r] =
             IF loaded.ok
             THEN AfterImage(render[r], loaded.img, heap)
             ELSE Catch(render[r], [cause |-> "loadImage", path |-> render[r].source])]
    /\ UNCHANGED <<deployment, templateDefinition, heap, templateFile,
                   assetsBackground, publicFiles, put>>

\* line 231-248: fs.writeFile(filePath, buffer) settles
RenderSaved(r, ok) ==
    /\ deployment = "server"
    /\ render[r].pc = "encoded"
    /\ IF ok
       THEN /\ publicFiles' = (r :> render[r].canvas) @@ publicFiles
            /\ render' = [render EXCEPT ![r].pc = "done",
                                        ![r].response = [status |-> 200, url |-> r]]
       ELSE /\ publicFiles' = publicFiles
            /\ render' = [render EXCEPT ![r].pc = "done",
                             ![r].response = [status |-> 500,
                                              error |-> "Failed to save image"]]
    /\ UNCHANGED <<deployment, templateDefinition, heap, templateFile,
                   assetsBackground, put>>

IdlePut == [pc |-> "idle", response |-> Null]

\* PutStart that accepts every body that has an elements field.
PutStartAnyElements(p, body) ==
    /\ deployment = "server"
    /\ put[p].pc = "idle"
    /\ \A q \in DOMAIN put : q < p => put[q].pc # "idle"
    /\ heap' = [heap EXCEPT ![p] = body]
    /\ put' = [put EXCEPT ![p] =
         IF "elements" \in DOMAIN body /\ body.elements.t \notin {"undefined", "null"}
         THEN [pc |-> "awaitWrite", response |-> Null]
         ELSE [pc |-> "done",
               response |-> [status |-> 400, error |-> "Invalid template format"]]]
    /\ UNCHANGED <<deployment, templateDefinition, templateFile, assetsBackground,
                   publicFiles, render>>

\* line 88: !newTemplate || !newTemplate.elements || !Array.isArray(newTemplate.elements)
\* is false; a value that is an array is truthy
ValidTemplate(body) == "elements" \in DOMAIN body /\ body.elements.t = "array"

\* line 83-93: the handler up to the await of the file write; heap[p] is
\* the object express.json() made of the request's body
PutStart(p, body) ==
    /\ deployment = "server"
    /\ put[p].pc = "idle"
    /\ \A q \in DOMAIN put : q < p => put[q].pc # "idle"
    /\ heap' = [heap EXCEPT ![p] = body]
    /\ put' = [put EXCEPT ![p] =
         IF ValidTemplate(body)
         THEN [pc |-> "awaitWrite", response |-> Null]
         ELSE [pc |-> "done",
               response |-> [status |-> 400, error |-> "Invalid template format"]]]
    /\ UNCHANGED <<deployment, templateDefinition, templateFile, assetsBackground,
                   publicFiles, render>>

\* line 93: the file system carries out fs.writeFile(templatePath, ...)
PutWriteFile(p, ok) ==
    /\ deployment = "server"
    /\ put[p].pc = "awaitWrite"
    /\ IF ok
       THEN /\ templateFile' = JsonStringify(heap[p])
            /\ put' = [put EXCEPT ![p].pc = "written"]
       ELSE /\ templateFile' = templateFile
            /\ put' = [put EXCEPT ![p].pc = "writeFailed"]
    /\ UNCHANGED <<deployment, templateDefinition, heap, assetsBackground,
                   publicFiles, render>>

\* PutResume that assigns the template whether or not the file was written.
PutResumeAlways(p) ==
    /\ deployment = "server"
    /\ put[p].pc \in {"written", "writeFailed"}
    /\ templateDefinition' = Ref(p)
    /\ put' = [put EXCEPT ![p] =
         IF put[p].pc = "written"
         THEN [pc |-> "done", response |-> [status |-> 200, success |-> TRUE]]
         ELSE [pc |-> "done",
               response |-> [status |-> 500, error |-> "Failed to update template"]]]
    /\ UNCHANGED <<deployment, heap, templateFile, assetsBackground,
                   publicFiles, render>>

\* line 96-102: the handler resumes after the await
PutResume(p) ==
    /\ deployment = "server"
    /\ put[p].pc \in {"written", "writeFailed"}
    /\ IF put[p].pc = "written"
       THEN /\ templateDefinition' = Ref(p)
            /\ put' = [put EXCEPT ![p] =
                 [pc |-> "done", response |-> [status |-> 200, success |-> TRUE]]]
       ELSE /\ templateDefinition' = templateDefinition
            /\ put' = [put EXCEPT ![p] =
                 [pc |-> "done",
                  response |-> [status |-> 500, error |-> "Failed to update template"]]]
    /\ UNCHANGED <<deployment, heap, templateFile, assetsBackground,
                   publicFiles, render>>

----------------------------------------------------------------------------
(* The POST handler of api/render.js.  It keeps its own module variable   *)
(* templateDefinition, loaded from the file by the first request; the     *)
(* compositing code is that of server.js.                                 *)

\* render.js 217-222: after the loop the image is returned in the response
ApiRespond(rs) ==
    IF rs.pc = "encoded"
    THEN [rs EXCEPT !.pc = "done", !.response = [status |-> 200, image |-> rs.canvas]]
    ELSE rs

\* render.js 88-101: the template is loaded; up to the await of the first
\* background load
ApiBeginBackground(rs, tdef, hp) ==
    LET background == TemplateBackground(tdef, hp)
    IN  IF Truthy(background)
        THEN [rs EXCEPT !.pc = "awaitBg", !.background = background,
                        !.source = ResolvePath(resolvePlaceholders(background, rs.data).s)]
        ELSE [rs EXCEPT !.pc = "awaitFallback", !.background = background]

\* render.js 56-101: the handler up to its first await
ApiRenderStart(r, body) ==
    /\ deployment = "api"
    /\ render[r].pc = "idle"
    /\ \A q \in DOMAIN render : q < r => render[q].pc # "idle"
    /\ render' = [render EXCEPT ![r] =
         IF templateDefinition = Null
         THEN [render[r] EXCEPT !.pc = "awaitTemplate", !.data = body]
         ELSE ApiBeginBackground([render[r] EXCEPT !.data = body], templateDefinition, heap)]
    /\ UNCHANGED <<deployment, templateDefinition, heap, templateFile,
                   assetsBackground, publicFiles, put>>

\* render.js 24-32, 73-78: fs.readFile settles inside loadTemplateDefinition
ApiTemplateLoaded(r) ==
    /\ deployment = "api"
    /\ render[r].pc = "awaitTemplate"
    /\ IF templateFile.exists
       THEN /\ heap' = [heap EXCEPT ![NPuts + r] = templateFile.json]
            /\ templateDefinition' = Ref(NPuts + r)
            /\ render' = [render EXCEPT ![r] =
                 ApiBeginBackground(render[r], Ref(NPuts + r),
                                    [heap EXCEPT ![NPuts + r] = templateFile.json])]
       ELSE /\ heap' = heap
            /\ templateDefinition' = Null
            /\ render' = [render EXCEPT ![r].pc = "done",
                             ![r].response = [status |-> 500,
                                              error |-> "Template not loaded"]]
    /\ UNCHANGED <<deployment, templateFile, assetsBackground, publicFiles, put>>

\* render.js 96-117: loadImage(resolvedBgPath) settles
ApiBgLoaded(r) ==
    /\ deployment = "api"
    /\ render[r].pc = "awaitBg"
    /\ LET loaded == LoadImage(render[r].source, assetsBackground)
       IN  render' = [render EXCEPT ![r] =
             IF loaded.ok
             THEN ApiRespond(Compose(render[r], loaded.img, templateDefinition, heap))
             ELSE [render[r] EXCEPT !.pc = "awaitFallback"]]
    /\ UNCHANGED <<deployment, templateDefinition, heap, templateFile,
                   assetsBackground, publicFiles, put>>

\* render.js 111-115: the white canvas that stands in for the background
DefaultCanvas == [id |-> "default", width |-> DefaultSize, height |-> DefaultSize]

\* render.js 105-117: loadImage(fallbackBg) settles; a rejection is caught
ApiFallbackLoaded(r) ==
    /\ deployment = "api"
    /\ render[r].pc = "awaitFallback"
    /\ LET loaded == LoadImage(FallbackBg, assetsBackground)
           bgImage == IF loaded.ok THEN loaded.img ELSE DefaultCanvas
       IN  render' = [render EXCEPT ![r] =
             ApiRespond(Compose(render[r], bgImage, templateDefinition, heap))]
    /\ UNCHANGED <<deployment, templateDefinition, heap, templateFile,
                   assetsBackground, publicFiles, put>>

\* render.js 147-150: fetch(source) settles
ApiFetched(r) ==
    /\ deployment = "api"
    /\ render[r].pc = "awaitFetch"
    /\ LET resp == Fetch(render[r].source)
       IN  render' = [render EXCEPT ![r] =
             IF resp.settled = "rejected"
             THEN Catch(render[r], [cause |-> "fetch"])
             ELSE IF ~resp.ok
             THEN Catch(render[r],
                        [cause |-> "Failed to fetch image",
                         name |-> ElementName(CurrentElement(render[r], heap)),
                         status |-> resp.status])
             ELSE [render[r] EXCEPT !.pc = "awaitArrayBuffer", !.resp = resp]]
    /\ UNCHANGED <<deployment, templateDefinition, heap, templateFile,
                   assetsBackground, publicFiles, put>>

\* render.js 151: resp.arrayBuffer() settles
ApiArrayBuffer(r) ==
    /\ deployment = "api"
    /\ render[r].pc = "awaitArrayBuffer"
    /\ render' = [render EXCEPT ![r].pc = "awaitDecode"]
    /\ UNCHANGED <<deployment, templateDefinition, heap, templateFile,
                   assetsBackground, publicFiles, put>>

\* render.js 152-222: loadImage(buf) settles
ApiDecoded(r) ==
    /\ deployment = "api"
    /\ render[r].pc = "awaitDecode"
    /\ LET decoded == DecodeImage(render[r].resp.bytes)
       IN  render' = [render EXCEPT ![r] =
             IF decoded.ok
             THEN ApiRespond(AfterImage(render[r], decoded.img, heap))
             ELSE Catch(render[r], [cause |-> "loadImage"])]
    /\ UNCHANGED <<deployment, templateDefinition, heap, templateFile,
                   assetsBackground, publicFiles, put>>

\* render.js 157-222: loadImage(localPath) settles
ApiLocalLoaded(r) ==
    /\ deployment = "api"
    /\ render[r].pc = "awaitLocal"
    /\ LET loaded == LoadImage(render[r].source, assetsBackground)
       IN  render' = [render EXCEPT ![r] =
             IF loaded.ok
             THEN ApiRespond(AfterImage(render[r], loaded.img, heap))
             ELSE Catch(render[r], [cause |-> "loadImage", path |-> render[r].source])]
    /\ UNCHANGED <<deployment, templateDefinition, heap, templateFile,
                   assetsBackground, publicFiles, put>>

----------------------------------------------------------------------------
(* Specifications *)

\* The state after module evaluation: loadTemplateDefinition() has run.
InitServer ==
    /\ deployment = "server"
    /\ templateFile \in BootFiles
    /\ templateDefinition = IF templateFile.exists THEN Ref(0) ELSE Null
    /\ heap = [id \in ObjectIds |->
                 IF id = 0 /\ templateFile.exists THEN templateFile.json ELSE Undefined]
    /\ assetsBackground \in BOOLEAN
    /\ publicFiles = <<>>
    /\ render = [r \in Renders |-> IdleRender]
    /\ put = [p \in Puts |-> IdlePut]

ResolverOff ==
    /\ rpValue = Undefined
    /\ rpData = <<>>
    /\ rpResult = Undefined
    /\ rpTwice = Undefined
    /\ rpPc = "off"

\* The state after api/render.js has been loaded: nothing is read yet.
InitApi ==
    /\ deployment = "api"
    /\ templateFile \in BootFiles
    /\ templateDefinition = Null
    /\ heap = [id \in ObjectIds |-> Undefined]
    /\ assetsBackground \in BOOLEAN
    /\ publicFiles = <<>>
    /\ render = [r \in Renders |-> IdleRender]
    /\ put = [p \in Puts |-> IdlePut]

\* no piece of code is exercised on its own
HarnessOff ==
    /\ fnName = "none"
    /\ fnArgs = <<>>
    /\ fnResult = <<>>

\* api/template.js is not loaded and nothing is asked of GET /api/template
TemplateOff ==
    /\ templateJs = Null
    /\ get = <<>>

Init == (InitServer \/ InitApi) /\ ResolverOff /\ HarnessOff /\ TemplateOff

Next ==
    \/ \E r \in DOMAIN render, body \in RenderBodies : RenderStart(r, body) /\ UNCHANGED <<rpVars, fnVars, tplVars>>
    \/ \E r \in DOMAIN render : RenderBgLoaded(r) /\ UNCHANGED <<rpVars, fnVars, tplVars>>
    \/ \E r \in DOMAIN render : RenderFallbackLoaded(r) /\ UNCHANGED <<rpVars, fnVars, tplVars>>
    \/ \E r \in DOMAIN render : RenderFetched(r) /\ UNCHANGED <<rpVars, fnVars, tplVars>>
    \/ \E r \in DOMAIN render : RenderArrayBuffer(r) /\ UNCHANGED <<rpVars, fnVars, tplVars>>
    \/ \E r \in DOMAIN render : RenderDecoded(r) /\ UNCHANGED <<rpVars, fnVars, tplVars>>
    \/ \E r \in DOMAIN render : RenderLocalLoaded(r) /\ UNCHANGED <<rpVars, fnVars, tplVars>>
    \/ \E r \in DOMAIN render, ok \in BOOLEAN : RenderSaved(r, ok) /\ UNCHANGED <<rpVars, fnVars, tplVars>>
    \/ \E p \in DOMAIN put, body \in PutBodies : PutStart(p, body) /\ UNCHANGED <<rpVars, fnVars, tplVars>>
    \/ \E p \in DOMAIN put, ok \in BOOLEAN : PutWriteFile(p, ok) /\ UNCHANGED <<rpVars, fnVars, tplVars>>
    \/ \E p \in DOMAIN put : PutResume(p) /\ UNCHANGED <<rpVars, fnVars, tplVars>>
    \/ \E r \in DOMAIN render, body \in RenderBodies : ApiRenderStart(r, body) /\ UNCHANGED <<rpVars, fnVars, tplVars>>
    \/ \E r \in DOMAIN render : ApiTemplateLoaded(r) /\ UNCHANGED <<rpVars, fnVars, tplVars>>
    \/ \E r \in DOMAIN render : ApiBgLoaded(r) /\ UNCHANGED <<rpVars, fnVars, tplVars>>
    \/ \E r \in DOMAIN render : ApiFallbackLoaded(r) /\ UNCHANGED <<rpVars, fnVars, tplVars>>
    \/ \E r \in DOMAIN render : ApiFetched(r) /\ UNCHANGED <<rpVars, fnVars, tplVars>>
    \/ \E r \in DOMAIN render : ApiArrayBuffer(r) /\ UNCHANGED <<rpVars, fnVars, tplVars>>
    \/ \E r \in DOMAIN render : ApiDecoded(r) /\ UNCHANGED <<rpVars, fnVars, tplVars>>
    \/ \E r \in DOMAIN render : ApiLocalLoaded(r) /\ UNCHANGED <<rpVars, fnVars, tplVars>>

Spec == Init /\ [][Next]_vars

----------------------------------------------------------------------------
(* resolvePlaceholders on its own: the arguments are drawn from bounded   *)
(* sets and one call is made.                                             *)

\* The pieces the string arguments are concatenated from: well-formed
\* tokens, malformed brace syntax, and plain text.
Pieces ==
    {Token("a"),
     <<"{", "{", " ", "b", " ", "}", "}">>,
     Token("missing"),
     Token("constructor"),
     <<"{", "{", "}", "}">>,
     <<"{", "{", "a">>,
     <<"{", "{", "a", "-", "b", "}", "}">>,
     <<"{">>,
     <<"}">>,
     <<"a">>,
     <<"-">>}

RECURSIVE Concatenations(_)
\* the strings made of at most n pieces
Concatenations(n) ==
    IF n = 0 THEN {<<>>}
    ELSE LET shorter == Concatenations(n - 1)
         IN  shorter \cup {s \o piece : s \in shorter, piece \in Pieces}

\* The `value` arguments: strings, and the non-string values of numeric fields.
ValueArguments ==
    {Str(s) : s \in Concatenations(MaxPieces)} \cup {Num(0), Num(24), Null, Undefined}

\* The values a key of the data mapping may have.
DataValues == {Str(<<"X">>), Str(Token("b")), Str(Token("a")), Num(0), Null}

\* The `data` arguments: key a absent or with any of the values, key b
\* absent or a string.
DataArguments ==
    LET forA == {<<>>} \cup {<<"a">> :> v : v \in DataValues}
        forB == {<<>>, <<"b">> :> Str(<<"Y">>)}
    IN  {da @@ db : da \in forA, db \in forB}

ServerOff ==
    /\ deployment = "none"
    /\ templateFile = [exists |-> FALSE]
    /\ templateDefinition = Null
    /\ heap = [id \in ObjectIds |-> Undefined]
    /\ assetsBackground = FALSE
    /\ publicFiles = <<>>
    /\ render = [r \in Renders |-> IdleRender]
    /\ put = [p \in Puts |-> IdlePut]
    /\ TemplateOff

InitResolve ==
    /\ ServerOff
    /\ HarnessOff
    /\ rpValue \in ValueArguments
    /\ rpData \in DataArguments
    /\ rpResult = Undefined
    /\ rpTwice = Undefined
    /\ rpPc = "call"

\* one call of resolvePlaceholders(value, data), and one more on its result
ResolveCall ==
    /\ rpPc = "call"
    /\ rpResult' = resolvePlaceholders(rpValue, rpData)
    /\ rpTwice' = resolvePlaceholders(resolvePlaceholders(rpValue, rpData), rpData)
    /\ rpPc' = "returned"
    /\ UNCHANGED <<rpValue, rpData, serverVars, fnVars, tplVars>>

NextResolve == ResolveCall

SpecResolve == InitResolve /\ [][NextResolve]_vars

----------------------------------------------------------------------------
(* PUT /api/template on its own: the replace requests of server.js with    *)
(* no render in flight, for any content of templates/template.json and a   *)
(* wider set of request bodies.                                            *)

\* Request bodies: templates with an array of elements (empty, of elements
\* of the known shapes, of values that are no elements at all), and bodies
\* whose elements are missing, null, a string, a number or a plain object;
\* null is the body `null`.
PutPayloads ==
    {EmptyTemplate, SkipTemplate,
     Template(Str(<<"bgA.png">>), Arr(<<Null, Num(7), Str(<<"text">>)>>)),
     Null,
     Template(Str(<<"bgB.png">>), Undefined),
     Template(Undefined, Null),
     Template(Undefined, Str(<<"elements">>)),
     Template(Undefined, Num(0)),
     Template(Undefined, [t |-> "object", length |-> Num(1)])}

\* What templates/template.json may hold at startup: JSON.parse takes any
\* JSON text, with or without an array of elements.
AnyBootFiles ==
    BootFiles \cup
    {[exists |-> TRUE, json |-> Template(Str(<<"bgB.png">>), Undefined)],
     [exists |-> TRUE, json |-> Template(Undefined, Str(<<"elements">>))]}

InitPut ==
    /\ deployment = "server"
    /\ templateFile \in AnyBootFiles
    /\ templateDefinition = IF templateFile.exists THEN Ref(0) ELSE Null
    /\ heap = [id \in ObjectIds |->
                 IF id = 0 /\ templateFile.exists THEN templateFile.json ELSE Undefined]
    /\ assetsBackground = TRUE
    /\ publicFiles = <<>>
    /\ render = <<>>
    /\ put = [p \in Puts |-> IdlePut]
    /\ ResolverOff
    /\ HarnessOff
    /\ TemplateOff

NextPut ==
    \/ \E p \in DOMAIN put, body \in PutPayloads :
          PutStart(p, body) /\ UNCHANGED <<rpVars, fnVars, tplVars>>
    \/ \E p \in DOMAIN put, ok \in BOOLEAN :
          PutWriteFile(p, ok) /\ UNCHANGED <<rpVars, fnVars, tplVars>>
    \/ \E p \in DOMAIN put : PutResume(p) /\ UNCHANGED <<rpVars, fnVars, tplVars>>

SpecPut == InitPut /\ [][NextPut]_vars

----------------------------------------------------------------------------
(* The painting of one element on its own (server.js 181-209): the element *)
(* is drawn from bounded sets and painted once on a surface that holds the *)
(* fallback background.                                                    *)

\* element.radius of the rectangles: absent, null, negative, zero, positive
RadiusValues == {Undefined, Null} \cup {Num(n) : n \in -1..MaxSide}

\* the rectangle elements
PaintRectangles ==
    {[RectElement(1, 0, w, h, Str(<<"#FF0000">>)) EXCEPT !.radius = radius] :
        w \in 0..MaxSide, h \in 0..MaxSide, radius \in RadiusValues}

\* element.clip of the image elements
ClipValues == {Undefined, Str(<<"none">>), Str(<<"circle">>)}

\* element.border of the image elements: absent, null, with a width that is
\* positive, zero, negative or missing, with and without a colour
BorderValues ==
    {Undefined, Null,
     Border(Num(1), Str(<<"#0000FF">>)), Border(Num(2), Str(<<"#0000FF">>)),
     Border(Num(0), Str(<<"#0000FF">>)), Border(Num(-1), Str(<<"#0000FF">>)),
     Border(Undefined, Str(<<"#0000FF">>)), Border(Num(2), Undefined)}

\* the image elements; their image has been acquired
PaintImages ==
    {ImageElement(x, 1, w, h, Str(<<"photo.png">>), clip, border) :
        x \in 0..1, w \in 2..MaxSide, h \in 2..MaxSide,
        clip \in ClipValues, border \in BorderValues}

PaintArguments == [element : PaintRectangles \cup PaintImages]

\* the surface an element is painted on: the fallback background, drawn
SurfaceBefore ==
    [PaintBackground([IdleRender EXCEPT !.data = [k \in {} |-> Undefined]],
                     LoadImage(FallbackBg, TRUE).img) EXCEPT !.idx = 1]

InitPaint ==
    /\ ServerOff
    /\ ResolverOff
    /\ fnName = "paint"
    /\ fnArgs \in PaintArguments
    /\ fnResult = [done |-> FALSE]

\* server.js 181-196 or 198-208: the element is painted
PaintElement ==
    /\ fnName = "paint"
    /\ ~fnResult.done
    /\ fnResult' =
         [done |-> TRUE,
          before |-> SurfaceBefore,
          after |-> IF fnArgs.element.type = Str(<<"rectangle">>)
                    THEN PaintRectangle(SurfaceBefore, fnArgs.element)
                    ELSE PaintImage(SurfaceBefore, fnArgs.element,
                                    LocalImages[<<"/app/", "photo.png">>])]
    /\ UNCHANGED <<fnName, fnArgs, serverVars, rpVars, tplVars>>

NextPaint == PaintElement

SpecPaint == InitPaint /\ [][NextPaint]_vars

----------------------------------------------------------------------------
(* The loop over the elements, one element a step, the awaits of an image  *)
(* settled at once: what an element's paint finds on the context that the  *)
(* elements before it have left.                                           *)

\* the values of `align` in a template
AlignValues ==
    {Undefined, Null, Num(0), Num(5), Str(<<>>), Str(<<"left">>), Str(<<"LEFT">>),
     Str(<<"Right">>), Str(<<"right">>), Str(<<"CENTER">>), Str(<<"center">>),
     Str(<<"Justify">>), Str(<<"start">>)}

\* the values of `color` in a template
ColorValues ==
    {Undefined, Null, Str(<<"#FF0000">>), Str(Token("badge_color")), Str(<<"red-ish">>)}

\* the element painted first
FirstElements ==
    {RectGreen,
     ImageElement(1, 1, 2, 2, Str(<<"photo.png">>), Str(<<"circle">>),
                  Border(Num(2), Str(<<"#0000FF">>))),
     TextElement(2, 2, Str(<<"Top">>), Str(<<"#0000FF">>), Str(<<"center">>))}

\* the element painted after it
SecondElements ==
    {[RectElement(1, 1, 3, 3, Undefined) EXCEPT !.color = color] : color \in ColorValues}
    \cup {TextElement(1, 3, Str(<<"Ann">>), color, align) :
             color \in ColorValues, align \in AlignValues}

ElementsData ==
    {(<<"badge_color">> :> Str(<<"#00FF00">>)), [k \in {} |-> Undefined]}

ElementsArguments ==
    [items : {<<first, second>> : first \in FirstElements, second \in SecondElements},
     data : ElementsData]

InitElements ==
    /\ ServerOff
    /\ ResolverOff
    /\ fnName = "elements"
    /\ fnArgs \in ElementsArguments
    /\ fnResult = [SurfaceBefore EXCEPT !.data = fnArgs.data, !.pc = "loop"]

\* server.js 149-228: one pass of the for-of loop
PaintNext ==
    /\ fnName = "elements"
    /\ fnResult.pc = "loop"
    /\ fnResult.idx <= Len(fnArgs.items)
    /\ LET rs == fnResult
           element == fnArgs.items[rs.idx]
           started == StartImage(rs, element)
           loaded == LoadImage(started.source, TRUE)
           painted ==
               CASE element.type = Str(<<"image">>) ->
                        IF started.pc = "done" THEN started
                        ELSE IF loaded.ok THEN PaintImage(rs, element, loaded.img)
                        ELSE Catch(rs, [cause |-> "loadImage", path |-> started.source])
                 [] element.type = Str(<<"rectangle">>) -> PaintRectangle(rs, element)
                 [] element.type = Str(<<"text">>) -> PaintText(rs, element)
                 [] OTHER -> rs
       IN  fnResult' = IF painted.pc = "done" THEN painted
                       ELSE [painted EXCEPT !.idx = rs.idx + 1]
    /\ UNCHANGED <<fnName, fnArgs, serverVars, rpVars, tplVars>>

NextElements == PaintNext

SpecElements == InitElements /\ [][NextElements]_vars

----------------------------------------------------------------------------
(* One handler run from start to end with nothing else in between: the     *)
(* awaits settle one after the other.  entry is "server" (server.js        *)
(* /render), "api" (api/render.js), "preview" or "render001" (the /preview *)
(* and /render of the later server, unnamed/part_001).  env is what the    *)
(* host provides: whether assets/background.png loads, the font families   *)
(* that are available, whether measureText reports the size of the font.   *)

\* part_001 551: `${fontSize}px "${fontFamily}", Arial, sans-serif`
FontString001(fontSize, fontFamily) ==
    <<ToString(fontSize), "px", " ", "\"">> \o fontFamily
        \o <<"\"", ",", " ", "Arial", ",", " ", "sans-serif">>

\* part_001 557-559: ctx.measureText("M").actualBoundingBoxAscent, in tenths
\* of a pixel: 0.7 of the font size, or nothing when the size is not applied
MeasuredAscent10(fontSize, env) == IF env.ascentOk THEN 7 * fontSize ELSE 0

\* part_001 535-603: a text element of /render
PaintText001(rs, element, env) ==
    LET x == NumberOr(element.x, 0)
        y == NumberOr(element.y, 0)
        fontSize == NumberOr(element.fontSize, 24)
        color == resolvePlaceholders(Nullish(element.color, Str(<<"#000000">>)), rs.data)
        text == resolvePlaceholders(Nullish(element.text, Str(<<>>)), rs.data)
        alignValue == AlignOrLeft(element.align)
        align == ToLowerCase(alignValue.s)
        fontFamilyRaw == IF Truthy(element.font) THEN element.font ELSE Str(<<"DB-Adman-X">>)
        resolvedFamily == resolvePlaceholders(fontFamilyRaw, rs.data)
        fontFamily == IF Truthy(resolvedFamily) THEN resolvedFamily.s ELSE <<"DB-Adman-X">>
        ascent10 == MeasuredAscent10(fontSize, env)
        expectedHeight10 == 7 * fontSize
        actualWorking == 2 * ascent10 > expectedHeight10
        \* Math.round(fontSize * expectedHeight / (ascent || 1))
        correctedFontSize ==
            IF ascent10 = 0 THEN (7 * fontSize * fontSize + 5) \div 10
            ELSE (2 * fontSize * expectedHeight10 + ascent10) \div (2 * ascent10)
        fontString == IF ~actualWorking /\ 2 * ascent10 < expectedHeight10
                      THEN FontString001(correctedFontSize, fontFamily)
                      ELSE FontString001(fontSize, fontFamily)
        styled == [SetFillStyle([rs.ctx EXCEPT !.font = fontString], color) EXCEPT
                     !.textAlign = IF align \in {<<"left">>, <<"right">>, <<"center">>}
                                   THEN align[1] ELSE "left"]
    IN  IF alignValue.t # "str" THEN Catch(rs, [cause |-> "TypeError"])
        ELSE FillText([rs EXCEPT !.ctx = styled], ToStringJS(text), x, y)

\* lines 165-179: the awaits of the acquisition of an image, settled
AcquireImage(started, element, env) ==
    IF started.pc = "awaitFetch"
    THEN LET resp == Fetch(started.source)
         IN  IF resp.settled = "rejected" THEN [ok |-> FALSE, err |-> [cause |-> "fetch"]]
             ELSE IF ~resp.ok
             THEN [ok |-> FALSE,
                   err |-> [cause |-> "Failed to fetch image",
                            name |-> ElementName(element), status |-> resp.status]]
             ELSE IF DecodeImage(resp.bytes).ok
             THEN [ok |-> TRUE, img |-> DecodeImage(resp.bytes).img]
             ELSE [ok |-> FALSE, err |-> [cause |-> "loadImage"]]
    ELSE LET loaded == LoadImage(started.source, env.assets)
         IN  IF loaded.ok THEN [ok |-> TRUE, img |-> loaded.img]
             ELSE [ok |-> FALSE, err |-> [cause |-> "loadImage", path |-> started.source]]

RECURSIVE PaintAll(_, _, _, _)
\* lines 149-231: the loop over `items` from element rs.idx on, to its end
\* or to the error that ends it
PaintAll(rs, items, entry, env) ==
    IF rs.idx > Len(items)
    THEN [rs EXCEPT !.pc = "encoded"]
    ELSE LET element == items[rs.idx]
             type == element.type
             started == StartImage(rs, element)
             acquired == AcquireImage(started, element, env)
         IN  CASE type = Str(<<"image">>) ->
                    IF started.pc = "done" THEN started
                    ELSE IF acquired.ok
                    THEN PaintAll([PaintImage(rs, element, acquired.img)
                                      EXCEPT !.idx = rs.idx + 1], items, entry, env)
                    ELSE Catch(rs, acquired.err)
               [] type = Str(<<"rectangle">>) ->
                    PaintAll([PaintRectangle(rs, element) EXCEPT !.idx = rs.idx + 1],
                             items, entry, env)
               [] type = Str(<<"text">>) ->
                    LET painted == IF entry = "render001"
                                   THEN PaintText001(rs, element, env)
                                   ELSE PaintText(rs, element)
                    IN  IF painted.pc = "done" THEN painted
                        ELSE PaintAll([painted EXCEPT !.idx = rs.idx + 1], items, entry, env)
               [] OTHER -> PaintAll([rs EXCEPT !.idx = rs.idx + 1], items, entry, env)

\* lines 118-137: the background image, or none when nothing could be loaded
BackgroundOf(entry, template, data, env) ==
    LET background == IF template = Null THEN Undefined ELSE template.background
        own == IF Truthy(background)
               THEN LoadImage(ResolvePath(resolvePlaceholders(background, data).s),
                              env.assets)
               ELSE [ok |-> FALSE]
        fallback == LoadImage(FallbackBg, env.assets)
    IN  IF own.ok THEN own
        ELSE IF fallback.ok THEN fallback
        ELSE IF entry = "api" THEN [ok |-> TRUE, img |-> DefaultCanvas]
        ELSE [ok |-> FALSE]

\* the handler `entry` run on `template` and `data`: the request's record at
\* the end of the loop (pc "encoded") or of the catch block (pc "done")
RunAlone(entry, template, data, env) ==
    LET rs == [IdleRender EXCEPT !.data = data,
                  !.background = IF template = Null THEN Undefined ELSE template.background]
        bg == BackgroundOf(entry, template, data, env)
        painted == PaintBackground(rs, bg.img)
        \* part_001 453-454: ctx.font = "100px Arial" before anything is drawn
        ready == IF entry = "render001"
                 THEN [painted EXCEPT !.ctx.font = <<"100", "px", " ", "Arial">>]
                 ELSE painted
        elements == IF template = Null THEN Undefined ELSE template.elements
    IN  IF entry = "api" /\ template = Null
        THEN [rs EXCEPT !.pc = "done",
                        !.response = [status |-> 500, error |-> "Template not loaded"]]
        ELSE IF ~bg.ok THEN Catch(rs, [cause |-> "loadImage", path |-> FallbackBg])
        ELSE IF HasLength(elements)
        THEN PaintAll([ready EXCEPT !.idx = 1], elements.items, entry, env)
        ELSE [ready EXCEPT !.pc = "encoded"]

----------------------------------------------------------------------------
(* /preview and /render of unnamed/part_001 on the same template and data *)

\* a text element in a family that is none of the registered ones
TitleText ==
    [TextElement(1, 3, Str(<<"Top", " ", "seller">>), Str(<<"#0000FF">>), Str(<<"Right">>))
        EXCEPT !.font = Str(<<"Helvetica">>), !.fontSize = Num(12)]

TextTemplate == Template(Str(<<"bgA.png">>), Arr(<<RectRed, TitleText, NameText>>))

PreviewTemplates == {BootTemplate, BrokenTemplate, SkipTemplate, EmptyTemplate, TextTemplate}

\* What the host provides.
Environments ==
    [assets : BOOLEAN, fonts : SUBSET {"DB-Adman-X", "Arial"}, ascentOk : BOOLEAN]

PreviewArguments ==
    [template : PreviewTemplates, data : RenderBodies, env : Environments]

InitPreview ==
    /\ ServerOff
    /\ ResolverOff
    /\ fnName = "preview"
    /\ fnArgs \in PreviewArguments
    /\ fnResult = [preview |-> Null, render |-> Null]

\* part_001 258-413: POST /preview with {template, data}
PreviewCall ==
    /\ fnName = "preview"
    /\ fnResult.preview = Null
    /\ fnResult' = [fnResult EXCEPT !.preview =
                       RunAlone("preview", fnArgs.template, fnArgs.data, fnArgs.env)]
    /\ UNCHANGED <<fnName, fnArgs, serverVars, rpVars, tplVars>>

\* part_001 415-675: POST /render with data, the template being the stored one
Render001Call ==
    /\ fnName = "preview"
    /\ fnResult.render = Null
    /\ fnResult' = [fnResult EXCEPT !.render =
                       RunAlone("render001", fnArgs.template, fnArgs.data, fnArgs.env)]
    /\ UNCHANGED <<fnName, fnArgs, serverVars, rpVars, tplVars>>

NextPreview == PreviewCall \/ Render001Call

SpecPreview == InitPreview /\ [][NextPreview]_vars

----------------------------------------------------------------------------
(* POST /preview of unnamed/part_001 beside the stored template: one       *)
(* preview request while PUT /api/template requests replace the template   *)

\* The `template` of the request's body; Undefined when the body has none.
PreviewGiven == {BootTemplate, SkipTemplate, TextTemplate, Undefined, Null}

\* The host of the preview: only the assets directory matters to it.
PreviewHosts == [assets : BOOLEAN, fonts : {{"Arial"}}, ascentOk : {TRUE}]

\* req.body of POST /preview; dataGiven is whether the body has a `data`
\* object
PreviewRequests ==
    {[template |-> t, data |-> d, dataGiven |-> TRUE, env |-> e] :
         t \in PreviewGiven, d \in RenderBodies, e \in PreviewHosts}
    \cup {[template |-> t, data |-> [k \in {} |-> Undefined], dataGiven |-> FALSE,
             env |-> e] : t \in PreviewGiven, e \in PreviewHosts}

IdlePreview == [pc |-> "idle", run |-> Null, response |-> Null]

\* part_001 262: !template || !data
PreviewIncomplete(body) == body.template \in {Undefined, Null} \/ ~body.dataGiven

\* PreviewStart that paints the stored template when there is one.
PreviewStartStored ==
    /\ fnName = "previewStore"
    /\ fnResult.pc = "idle"
    /\ fnResult' =
          IF PreviewIncomplete(fnArgs)
          THEN [pc |-> "done", run |-> Null,
                response |-> [status |-> 400,
                              error |-> "Both template and data are required"]]
          ELSE LET template == IF templateDefinition = Null THEN fnArgs.template
                               ELSE heap[templateDefinition.id]
                   run == RunAlone("preview", template, fnArgs.data, fnArgs.env)
               IN  IF run.pc = "done"
                   THEN [pc |-> "done", run |-> run,
                         response |-> [status |-> 500,
                                       error |-> "Preview generation failed"]]
                   ELSE [pc |-> "awaitWrite", run |-> run, response |-> Null]
    /\ UNCHANGED <<fnName, fnArgs, serverVars, rpVars, tplVars>>

\* part_001 258-389: the handler up to the await of the write of the image:
\* the check of the body, then the painting of the caller's template
PreviewStart ==
    /\ fnName = "previewStore"
    /\ fnResult.pc = "idle"
    /\ fnResult' =
          IF PreviewIncomplete(fnArgs)
          THEN [pc |-> "done", run |-> Null,
                response |-> [status |-> 400,
                              error |-> "Both template and data are required"]]
          ELSE LET run == RunAlone("preview", fnArgs.template, fnArgs.data, fnArgs.env)
               IN  IF run.pc = "done"
                   THEN [pc |-> "done", run |-> run,
                         response |-> [status |-> 500,
                                       error |-> "Preview generation failed"]]
                   ELSE [pc |-> "awaitWrite", run |-> run, response |-> Null]
    /\ UNCHANGED <<fnName, fnArgs, serverVars, rpVars, tplVars>>

\* part_001 392-407: fs.writeFile(filePath, buffer) settles; 0 stands for the
\* name preview-<id>.png
PreviewSaved(ok) ==
    /\ fnName = "previewStore"
    /\ fnResult.pc = "awaitWrite"
    /\ IF ok
       THEN /\ publicFiles' = (0 :> fnResult.run.canvas) @@ publicFiles
            /\ fnResult' = [fnResult EXCEPT !.pc = "done",
                                            !.response = [status |-> 200, url |-> 0]]
       ELSE /\ publicFiles' = publicFiles
            /\ fnResult' = [fnResult EXCEPT !.pc = "done",
                               !.response = [status |-> 500,
                                             error |-> "Failed to save preview image"]]
    /\ UNCHANGED <<fnName, fnArgs, deployment, templateDefinition, heap, templateFile,
                   assetsBackground, render, put, rpVars, tplVars>>

InitPreviewStore ==
    /\ deployment = "server"
    /\ templateFile \in BootFiles
    /\ templateDefinition = IF templateFile.exists THEN Ref(0) ELSE Null
    /\ heap = [id \in ObjectIds |->
                 IF id = 0 /\ templateFile.exists THEN templateFile.json ELSE Undefined]
    /\ fnArgs \in PreviewRequests
    /\ assetsBackground = fnArgs.env.assets
    /\ publicFiles = <<>>
    /\ render = [r \in Renders |-> IdleRender]
    /\ put = [p \in Puts |-> IdlePut]
    /\ fnName = "previewStore"
    /\ fnResult = IdlePreview
    /\ ResolverOff
    /\ TemplateOff

NextPreviewStore ==
    \/ PreviewStart
    \/ \E ok \in BOOLEAN : PreviewSaved(ok)
    \/ \E p \in DOMAIN put, body \in PutBodies : PutStart(p, body) /\ UNCHANGED <<rpVars, fnVars, tplVars>>
    \/ \E p \in DOMAIN put, ok \in BOOLEAN : PutWriteFile(p, ok) /\ UNCHANGED <<rpVars, fnVars, tplVars>>
    \/ \E p \in DOMAIN put : PutResume(p) /\ UNCHANGED <<rpVars, fnVars, tplVars>>

SpecPreviewStore == InitPreviewStore /\ [][NextPreviewStore]_vars

----------------------------------------------------------------------------
(* Concurrent renders of server.js while no template is put *)

\* The number of /render requests in flight together.
NConcurrent == 2

InitConcurrent ==
    /\ deployment = "server"
    /\ templateFile \in BootFiles \cup {[exists |-> TRUE, json |-> SkipTemplate]}
    /\ templateDefinition = IF templateFile.exists THEN Ref(0) ELSE Null
    /\ heap = [id \in ObjectIds |->
                 IF id = 0 /\ templateFile.exists THEN templateFile.json ELSE Undefined]
    /\ assetsBackground \in BOOLEAN
    /\ publicFiles = <<>>
    /\ render = [r \in 1..NConcurrent |-> IdleRender]
    /\ put = <<>>
    /\ ResolverOff
    /\ HarnessOff
    /\ TemplateOff

NextConcurrent ==
    \/ \E r \in DOMAIN render, body \in RenderBodies : RenderStart(r, body) /\ UNCHANGED <<rpVars, fnVars, tplVars>>
    \/ \E r \in DOMAIN render : RenderBgLoaded(r) /\ UNCHANGED <<rpVars, fnVars, tplVars>>
    \/ \E r \in DOMAIN render : RenderFallbackLoaded(r) /\ UNCHANGED <<rpVars, fnVars, tplVars>>
    \/ \E r \in DOMAIN render : RenderFetched(r) /\ UNCHANGED <<rpVars, fnVars, tplVars>>
    \/ \E r \in DOMAIN render : RenderArrayBuffer(r) /\ UNCHANGED <<rpVars, fnVars, tplVars>>
    \/ \E r \in DOMAIN render : RenderDecoded(r) /\ UNCHANGED <<rpVars, fnVars, tplVars>>
    \/ \E r \in DOMAIN render : RenderLocalLoaded(r) /\ UNCHANGED <<rpVars, fnVars, tplVars>>
    \/ \E r \in DOMAIN render, ok \in BOOLEAN : RenderSaved(r, ok) /\ UNCHANGED <<rpVars, fnVars, tplVars>>

SpecConcurrent == InitConcurrent /\ [][NextConcurrent]_vars

----------------------------------------------------------------------------
(* GET and PUT /api/template: server.js 75-103, and api/template.js, which *)
(* keeps its own module variable templateDefinition (templateJs) and loads *)
(* it from the file when a GET finds it empty.                             *)

\* The number of PUT /api/template requests in flight together.
NReplaces == 2

\* The number of GET /api/template requests.
NGets == 2

\* the objects of the heap: 0 the parse at startup, 1..NReplaces the bodies
\* of the PUT requests, then one per JSON.parse of a GET of template.js
TemplateIds == 0..(NReplaces + NGets)

IdleGet == [pc |-> "idle", read |-> Null, response |-> Null]

\* res.json(templateDefinition), or the 500 of an empty templateDefinition
TemplateResponse(tdef, hp) ==
    IF tdef = Null
    THEN [status |-> 500, error |-> "Template not loaded"]
    ELSE [status |-> 200, body |-> hp[tdef.id]]

\* server.js 75-80: GET /api/template
GetTemplate(g) ==
    /\ deployment = "server"
    /\ get[g].pc = "idle"
    /\ \A q \in DOMAIN get : q < g => get[q].pc # "idle"
    /\ get' = [get EXCEPT ![g] = [pc |-> "done", read |-> Null,
                                  response |-> TemplateResponse(templateDefinition, heap)]]
    /\ UNCHANGED <<serverVars, templateJs>>

\* template.js 31-42: GET up to the await of loadTemplateDefinition, or to
\* its answer when the template is loaded already
TplGetStart(g) ==
    /\ deployment = "api"
    /\ get[g].pc = "idle"
    /\ \A q \in DOMAIN get : q < g => get[q].pc # "idle"
    /\ get' = [get EXCEPT ![g] =
         IF templateJs = Null
         THEN [pc |-> "awaitRead", read |-> Null, response |-> Null]
         ELSE [pc |-> "done", read |-> Null,
               response |-> TemplateResponse(templateJs, heap)]]
    /\ UNCHANGED <<serverVars, templateJs>>

\* template.js 13: the file system carries out fs.readFile(templatePath)
TplFileRead(g) ==
    /\ deployment = "api"
    /\ get[g].pc = "awaitRead"
    /\ get' = [get EXCEPT ![g].pc = "read", ![g].read = templateFile]
    /\ UNCHANGED <<serverVars, templateJs>>

\* template.js 13-18, 36-42: loadTemplateDefinition resumes with what was
\* read, assigns templateDefinition, and the handler answers
TplGetResume(g) ==
    /\ deployment = "api"
    /\ get[g].pc = "read"
    /\ LET id == NReplaces + g
           loaded == IF get[g].read.exists THEN Ref(id) ELSE Null
           hp == IF get[g].read.exists THEN [heap EXCEPT ![id] = get[g].read.json] ELSE heap
       IN  /\ heap' = hp
           /\ templateJs' = loaded
           /\ get' = [get EXCEPT ![g].pc = "done",
                                 ![g].response = TemplateResponse(loaded, hp)]
    /\ UNCHANGED <<deployment, templateDefinition, templateFile, assetsBackground,
                   publicFiles, render, put>>

\* template.js 44-53: PUT up to the await of the file write
TplPutStart(p, body) ==
    /\ deployment = "api"
    /\ put[p].pc = "idle"
    /\ \A q \in DOMAIN put : q < p => put[q].pc # "idle"
    /\ heap' = [heap EXCEPT ![p] = body]
    /\ put' = [put EXCEPT ![p] =
         IF ValidTemplate(body)
         THEN [pc |-> "awaitWrite", response |-> Null]
         ELSE [pc |-> "done",
               response |-> [status |-> 400, error |-> "Invalid template format"]]]
    /\ UNCHANGED <<deployment, templateDefinition, templateFile, assetsBackground,
                   publicFiles, render, tplVars>>

\* template.js 53: the file system carries out fs.writeFile(templatePath, ...)
TplPutWriteFile(p, ok) ==
    /\ deployment = "api"
    /\ put[p].pc = "awaitWrite"
    /\ IF ok
       THEN /\ templateFile' = JsonStringify(heap[p])
            /\ put' = [put EXCEPT ![p].pc = "written"]
       ELSE /\ templateFile' = templateFile
            /\ put' = [put EXCEPT ![p].pc = "writeFailed"]
    /\ UNCHANGED <<deployment, templateDefinition, heap, assetsBackground,
                   publicFiles, render, tplVars>>

\* template.js 56-62: the handler resumes after the await
TplPutResume(p) ==
    /\ deployment = "api"
    /\ put[p].pc \in {"written", "writeFailed"}
    /\ IF put[p].pc = "written"
       THEN /\ templateJs' = Ref(p)
            /\ put' = [put EXCEPT ![p] =
                 [pc |-> "done", response |-> [status |-> 200, success |-> TRUE]]]
       ELSE /\ templateJs' = templateJs
            /\ put' = [put EXCEPT ![p] =
                 [pc |-> "done",
                  response |-> [status |-> 500, error |-> "Failed to update template"]]]
    /\ UNCHANGED <<deployment, templateDefinition, heap, templateFile, assetsBackground,
                   publicFiles, render, get>>

\* Request bodies of PUT /api/template: two templates and a body that is none.
ReplaceBodies ==
    {SkipTemplate, EmptyTemplate, Template(Undefined, Str(<<"elements">>))}

\* The state after server.js has started or template.js has been loaded.
\* What templates/template.json holds at the start: GET and PUT do not look
\* into a template, so one template, or no file.
TemplateFiles == {[exists |-> TRUE, json |-> BootTemplate], [exists |-> FALSE]}

InitTemplate ==
    /\ deployment \in {"server", "api"}
    /\ templateFile \in TemplateFiles
    /\ templateDefinition =
         IF deployment = "server" /\ templateFile.exists THEN Ref(0) ELSE Null
    /\ heap = [id \in TemplateIds |->
                 IF id = 0 /\ deployment = "server" /\ templateFile.exists
                 THEN templateFile.json ELSE Undefined]
    /\ assetsBackground = TRUE
    /\ publicFiles = <<>>
    /\ render = <<>>
    /\ put = [p \in 1..NReplaces |-> IdlePut]
    /\ templateJs = Null
    /\ get = [g \in 1..NGets |-> IdleGet]
    /\ ResolverOff
    /\ HarnessOff

NextTemplate ==
    \/ \E p \in DOMAIN put, body \in ReplaceBodies : PutStart(p, body) /\ UNCHANGED <<rpVars, fnVars, tplVars>>
    \/ \E p \in DOMAIN put, ok \in BOOLEAN : PutWriteFile(p, ok) /\ UNCHANGED <<rpVars, fnVars, tplVars>>
    \/ \E p \in DOMAIN put : PutResume(p) /\ UNCHANGED <<rpVars, fnVars, tplVars>>
    \/ \E g \in DOMAIN get : GetTemplate(g) /\ UNCHANGED <<rpVars, fnVars>>
    \/ \E p \in DOMAIN put, body \in ReplaceBodies : TplPutStart(p, body) /\ UNCHANGED <<rpVars, fnVars>>
    \/ \E p \in DOMAIN put, ok \in BOOLEAN : TplPutWriteFile(p, ok) /\ UNCHANGED <<rpVars, fnVars>>
    \/ \E p \in DOMAIN put : TplPutResume(p) /\ UNCHANGED <<rpVars, fnVars>>
    \/ \E g \in DOMAIN get : TplGetStart(g) /\ UNCHANGED <<rpVars, fnVars>>
    \/ \E g \in DOMAIN get : TplFileRead(g) /\ UNCHANGED <<rpVars, fnVars>>
    \/ \E g \in DOMAIN get : TplGetResume(g) /\ UNCHANGED <<rpVars, fnVars>>

SpecTemplate == InitTemplate /\ [][NextTemplate]_vars

----------------------------------------------------------------------------
(* One render of server.js on the sources an image element can name *)

\* Request bodies whose photo is a relative path, an absolute path, a URL that
\* is served, one that is answered 404, one whose host cannot be reached, a
\* URL in capitals, or missing.
AcquireBodies ==
    {(<<"photo">> :> Str(source)) :
        source \in {<<"photo.png">>, <<"/app/", "photo.png">>, <<"/", "tmp/x.png">>,
                    <<"http://", "cdn/ok.png">>, <<"http://", "cdn/404.png">>,
                    <<"https://", "cdn/x.png">>, <<"HTTP://", "cdn/ok.png">>}}
    \cup {[k \in {} |-> Undefined]}

InitAcquire ==
    /\ deployment = "server"
    /\ templateFile \in BootFiles
    /\ templateDefinition = IF templateFile.exists THEN Ref(0) ELSE Null
    /\ heap = [id \in ObjectIds |->
                 IF id = 0 /\ templateFile.exists THEN templateFile.json ELSE Undefined]
    /\ assetsBackground \in BOOLEAN
    /\ publicFiles = <<>>
    /\ render = [r \in Renders |-> IdleRender]
    /\ put = <<>>
    /\ ResolverOff
    /\ HarnessOff
    /\ TemplateOff

NextAcquire ==
    \/ \E r \in DOMAIN render, body \in AcquireBodies : RenderStart(r, body) /\ UNCHANGED <<rpVars, fnVars, tplVars>>
    \/ \E r \in DOMAIN render : RenderBgLoaded(r) /\ UNCHANGED <<rpVars, fnVars, tplVars>>
    \/ \E r \in DOMAIN render : RenderFallbackLoaded(r) /\ UNCHANGED <<rpVars, fnVars, tplVars>>
    \/ \E r \in DOMAIN render : RenderFetched(r) /\ UNCHANGED <<rpVars, fnVars, tplVars>>
    \/ \E r \in DOMAIN render : RenderArrayBuffer(r) /\ UNCHANGED <<rpVars, fnVars, tplVars>>
    \/ \E r \in DOMAIN render : RenderDecoded(r) /\ UNCHANGED <<rpVars, fnVars, tplVars>>
    \/ \E r \in DOMAIN render : RenderLocalLoaded(r) /\ UNCHANGED <<rpVars, fnVars, tplVars>>
    \/ \E r \in DOMAIN render, ok \in BOOLEAN : RenderSaved(r, ok) /\ UNCHANGED <<rpVars, fnVars, tplVars>>

SpecAcquire == InitAcquire /\ [][NextAcquire]_vars

----------------------------------------------------------------------------
(* Renders and template replaces together, in server.js and in the         *)
(* handlers of api/, where PUT is served by template.js and POST by        *)
(* render.js, each with its own templateDefinition.                        *)

\* The template a PUT stores.
ReplacingTemplate == Template(Str(<<"bgA.png">>), Arr(<<RectRed>>))

\* the templates of the file at the start: none of them has an image element
StartFiles ==
    {[exists |-> TRUE, json |-> SkipTemplate], [exists |-> TRUE, json |-> EmptyTemplate]}

\* The request body of the renders.
SellerBody ==
    (<<"badge_color">> :> Str(<<"#00FF00">>)) @@ (<<"sales_name">> :> Str(<<"Ann">>))

InitReplaced ==
    /\ deployment \in {"server", "api"}
    /\ templateFile \in StartFiles
    /\ templateDefinition = IF deployment = "server" THEN Ref(0) ELSE Null
    /\ heap = [id \in 0..(NPuts + NConcurrent) |->
                 IF id = 0 /\ deployment = "server" THEN templateFile.json ELSE Undefined]
    /\ assetsBackground \in BOOLEAN
    /\ publicFiles = <<>>
    /\ render = [r \in 1..NConcurrent |-> IdleRender]
    /\ put = [p \in Puts |-> IdlePut]
    /\ ResolverOff
    /\ HarnessOff
    /\ TemplateOff

NextReplaced ==
    \/ \E r \in DOMAIN render : RenderStart(r, SellerBody) /\ UNCHANGED <<rpVars, fnVars, tplVars>>
    \/ \E r \in DOMAIN render : RenderBgLoaded(r) /\ UNCHANGED <<rpVars, fnVars, tplVars>>
    \/ \E r \in DOMAIN render : RenderFallbackLoaded(r) /\ UNCHANGED <<rpVars, fnVars, tplVars>>
    \/ \E r \in DOMAIN render, ok \in BOOLEAN : RenderSaved(r, ok) /\ UNCHANGED <<rpVars, fnVars, tplVars>>
    \/ \E p \in DOMAIN put : PutStart(p, ReplacingTemplate) /\ UNCHANGED <<rpVars, fnVars, tplVars>>
    \/ \E p \in DOMAIN put, ok \in BOOLEAN : PutWriteFile(p, ok) /\ UNCHANGED <<rpVars, fnVars, tplVars>>
    \/ \E p \in DOMAIN put : PutResume(p) /\ UNCHANGED <<rpVars, fnVars, tplVars>>
    \/ \E r \in DOMAIN render : ApiRenderStart(r, SellerBody) /\ UNCHANGED <<rpVars, fnVars, tplVars>>
    \/ \E r \in DOMAIN render : ApiTemplateLoaded(r) /\ UNCHANGED <<rpVars, fnVars, tplVars>>
    \/ \E r \in DOMAIN render : ApiBgLoaded(r) /\ UNCHANGED <<rpVars, fnVars, tplVars>>
    \/ \E r \in DOMAIN render : ApiFallbackLoaded(r) /\ UNCHANGED <<rpVars, fnVars, tplVars>>
    \/ \E p \in DOMAIN put : TplPutStart(p, ReplacingTemplate) /\ UNCHANGED <<rpVars, fnVars>>
    \/ \E p \in DOMAIN put, ok \in BOOLEAN : TplPutWriteFile(p, ok) /\ UNCHANGED <<rpVars, fnVars>>
    \/ \E p \in DOMAIN put : TplPutResume(p) /\ UNCHANGED <<rpVars, fnVars>>

SpecReplaced == InitReplaced /\ [][NextReplaced]_vars

----------------------------------------------------------------------------
(* What the claims about resolvePlaceholders say, stated without the code *)

\* s[i..j] is a token: two opening braces, optional whitespace, an
\* identifier of word characters, optional whitespace, two closing braces.
WellFormedToken(s, i, j) ==
    /\ 1 <= i /\ i + 4 <= j /\ j <= Len(s)
    /\ s[i] = "{" /\ s[i + 1] = "{"
    /\ s[j - 1] = "}" /\ s[j] = "}"
    /\ \E a \in (i + 2)..(j - 2) : \E b \in a..(j - 2) :
          /\ \A k \in (i + 2)..(a - 1) : s[k] \in SpaceLexemes
          /\ \A k \in a..b : s[k] \in WordLexemes
          /\ \A k \in (b + 1)..(j - 2) : s[k] \in SpaceLexemes

\* the identifier of the token s[i..j]
TokenKey(s, i, j) == SelectSeq(SubSeq(s, i + 2, j - 2), LAMBDA c : c \in WordLexemes)

ContainsToken(s) == \E i \in 1..Len(s) : \E j \in 1..Len(s) : WellFormedToken(s, i, j)

\* What a token is to be replaced by: the string form of the value of a key
\* the data has with a non-null value, the empty string otherwise.
Substitute(key, data) ==
    IF key \in DOMAIN data /\ data[key] \notin {Null, Undefined}
    THEN ToStringJS(data[key])
    ELSE <<>>

RECURSIVE ExpectedFrom(_, _, _)
\* s from index i on with every token replaced
ExpectedFrom(s, i, data) ==
    IF i > Len(s) THEN <<>>
    ELSE IF \E j \in 1..Len(s) : WellFormedToken(s, i, j)
    THEN LET j == CHOOSE j \in 1..Len(s) : WellFormedToken(s, i, j)
         IN  Substitute(TokenKey(s, i, j), data) \o ExpectedFrom(s, j + 1, data)
    ELSE <<s[i]>> \o ExpectedFrom(s, i + 1, data)

\* C6: resolvePlaceholders(value, data) replaces every token of a string by
\* the string form of data[identifier] when the data has that key with a
\* non-null value, and by the empty string for every identifier that is not a
\* key of the data or whose value is null or undefined.
C6_EveryTokenReplaced ==
    (rpPc = "returned" /\ rpValue.t = "str")
        => rpResult = Str(ExpectedFrom(rpValue.s, 1, rpData))

\* C7: on an input without a well-formed token (a string without tokens or
\* with malformed brace syntax, a non-string value) resolvePlaceholders
\* returns the input unchanged, and applying it twice gives the same as once.
C7_IdentityWithoutToken ==
    (rpPc = "returned" /\ (rpValue.t # "str" \/ ~ContainsToken(rpValue.s)))
        => (rpResult = rpValue /\ rpTwice = rpResult)

\* C7 witness: a string with empty braces and an unclosed token was resolved
\* against data that has the key of the unclosed token.
C7_Witness ==
    /\ rpPc = "returned"
    /\ rpValue = Str(<<"{", "{", "}", "}", "{", "{", "a">>)
    /\ <<"a">> \in DOMAIN rpData
    /\ rpResult = rpValue

----------------------------------------------------------------------------
(* What the claims about POST /render say *)

\* a surface has been created for the request
HasSurface(rs) == rs.canvas # Null

\* the element list the request's loop is over (empty when the template is
\* null or has no elements)
LoopList(rs) ==
    IF rs.elements = Null THEN <<>>
    ELSE LET elements == heap[rs.elements.id].elements
         IN  IF elements.t = "array" THEN elements.items ELSE <<>>

\* the request's loop has run to its end
LoopFinished(rs) ==
    HasSurface(rs) /\ (rs.pc = "encoded" \/ (rs.pc = "done" /\ rs.thrown = Null))

\* the paint operations of element i, by position on the surface's list
PaintSteps(rs, i) == {k \in 1..Len(rs.canvas.ops) : rs.canvas.ops[k].el = i}

KnownTypes == {Str(<<"image">>), Str(<<"rectangle">>), Str(<<"text">>)}

ProbePixels == (0..MaxProbe) \X (0..MaxProbe)

\* the request was answered with an image: a URL, and the file behind it
AnsweredWithImage(r) ==
    \/ r \in DOMAIN publicFiles
    \/ (render[r].response # Null /\ render[r].response.status = 200)

\* C1: within one render the elements are painted in array order: every paint
\* step of element i comes before every paint step of a later element j, so
\* that where the last element, an opaque rectangle, overlaps earlier ones the
\* final pixel has its colour.
C1_PaintOrder ==
    \A r \in DOMAIN render :
        LET rs == render[r]
            list == LoopList(rs)
            last == list[Len(list)]
        IN  HasSurface(rs) =>
              /\ \A a \in 1..Len(rs.canvas.ops) : \A b \in a..Len(rs.canvas.ops) :
                    rs.canvas.ops[a].el <= rs.canvas.ops[b].el
              /\ (/\ LoopFinished(rs)
                  /\ Len(list) > 0
                  /\ last.type = Str(<<"rectangle">>)
                  /\ last.color.t = "str" /\ last.color.s \in CssColors)
                 => \A p \in ProbePixels :
                       (/\ last.x.n <= p[1] /\ p[1] < last.x.n + last.width.n
                        /\ last.y.n <= p[2] /\ p[2] < last.y.n + last.height.n
                        /\ p[1] < rs.canvas.width /\ p[2] < rs.canvas.height)
                       => PixelAt(rs.canvas, p[1], p[2]) = last.color.s

\* C1 witness: the red rectangle, the photo and the green rectangle of the
\* boot template were painted, and pixel (1, 1), which all three cover, is green.
C1_Witness ==
    \E r \in DOMAIN render :
        /\ LoopFinished(render[r])
        /\ LoopList(render[r]) = BootTemplate.elements.items
        /\ PaintSteps(render[r], 1) # {} /\ PaintSteps(render[r], 2) # {}
        /\ PixelAt(render[r].canvas, 1, 1) = <<"#00FF00">>

\* the template versions the module variable has held: none (null), the
\* parsed file, the accepted request bodies, the lazily loaded file
Installed(id) ==
    \/ id = 0 /\ heap[0] # Undefined
    \/ id \in DOMAIN put /\ put[id].response # Null /\ put[id].response.status = 200
    \/ id > NPuts /\ heap[id] # Undefined

\* C2: a render works on one snapshot of the template: the background it
\* resolves and the element list it paints come from the same version.
C2_OneSnapshot ==
    \A r \in DOMAIN render :
        HasSurface(render[r]) =>
            \/ render[r].background = Undefined /\ render[r].elements = Null
            \/ \E id \in DOMAIN heap :
                  /\ Installed(id)
                  /\ render[r].background = heap[id].background
                  /\ LoopList(render[r]) = LoopList([elements |-> Ref(id)])

\* the resolved source of image element `element` cannot be acquired
AcquisitionFails(element, data) ==
    LET source == resolvePlaceholders(Nullish(element.source, Str(<<>>)), data).s
        remote == Len(source) > 0 /\ source[1] \in {"http://", "https://"}
        resp == Fetch(source)
    IN  IF remote
        THEN \/ resp.settled = "rejected"
             \/ ~resp.ok
             \/ ~DecodeImage(resp.bytes).ok
        ELSE ~LoadImage(ResolvePath(source), assetsBackground).ok

\* C3: when the resource of an image element of the list cannot be acquired
\* or decoded, the render ends in a failure response and produces no output:
\* no file, no URL, whatever was painted before.
C3_AcquisitionFailureNoOutput ==
    \A r \in DOMAIN render :
        LET rs == render[r]
            list == LoopList(rs)
        IN  (/\ HasSurface(rs)
             /\ \E i \in 1..Len(list) :
                   list[i].type = Str(<<"image">>) /\ AcquisitionFails(list[i], rs.data))
            => /\ ~AnsweredWithImage(r)
               /\ rs.pc # "encoded"
               /\ rs.pc = "done" => rs.response.status = 500

\* C3 witness: the fetch of the second element's image answered 404 after the
\* first element had been painted, and the request was answered with 500.
C3_Witness ==
    \E r \in DOMAIN render :
        /\ render[r].pc = "done"
        /\ render[r].thrown # Null /\ render[r].thrown.cause = "Failed to fetch image"
        /\ render[r].idx = 2
        /\ PaintSteps(render[r], 1) # {}
        /\ render[r].response.status = 500
        /\ r \notin DOMAIN publicFiles

\* C4: background resolution is never fatal: whatever backgrounds fail to
\* load, a render that has its template does not fail before it has a surface.
C4_BackgroundNeverFatal ==
    \A r \in DOMAIN render :
        (render[r].response # Null /\ render[r].response.status = 500
            /\ render[r].response.error # "Template not loaded")
        => HasSurface(render[r])

\* C5: while the in-memory template is null no render proceeds: none creates
\* a surface and none is answered with an image.
C5_NoRenderWithoutTemplate ==
    templateDefinition = Null =>
        \A r \in DOMAIN render :
            /\ ~HasSurface(render[r])
            /\ ~AnsweredWithImage(r)
            /\ render[r].pc = "done" => render[r].response.status = 500

\* C8: an element of unknown type paints nothing, raises no error and does
\* not end the render: every element of a known type that the loop has passed
\* has been painted, also those after an unknown one.
C8_UnknownTypeSkipped ==
    \A r \in DOMAIN render :
        LET rs == render[r]
            list == LoopList(rs)
        IN  HasSurface(rs) =>
              \A i \in 1..Len(list) :
                 /\ list[i].type \notin KnownTypes =>
                       /\ PaintSteps(rs, i) = {}
                       /\ rs.thrown # Null => rs.idx # i
                       /\ rs.idx >= i
                 /\ (list[i].type \in KnownTypes /\ i < rs.idx) => PaintSteps(rs, i) # {}

\* C8 witness: the loop over a list that starts with an unknown element has
\* finished and the two elements after it were painted.
C8_Witness ==
    \E r \in DOMAIN render :
        /\ LoopFinished(render[r])
        /\ LoopList(render[r]) = SkipTemplate.elements.items
        /\ PaintSteps(render[r], 1) = {}
        /\ PaintSteps(render[r], 2) # {} /\ PaintSteps(render[r], 3) # {}

\* C9: with an empty element sequence the surface is the background drawn
\* alone, and has the background's natural size.
C9_EmptyListIsBackground ==
    \A r \in DOMAIN render :
        LET rs == render[r]
        IN  (HasSurface(rs) /\ rs.elements # Null /\ LoopList(rs) = <<>>) =>
              /\ rs.canvas.width = rs.bgImage.width
              /\ rs.canvas.height = rs.bgImage.height
              /\ Len(rs.canvas.ops) = 1
              /\ \A p \in ProbePixels :
                    PixelAt(rs.canvas, p[1], p[2]) =
                        IF p[1] < rs.bgImage.width /\ p[2] < rs.bgImage.height
                        THEN <<"image", rs.bgImage.id>>
                        ELSE <<"outside">>

\* C9 witness: a render of the template with the empty element list saved its
\* surface, which has the size of assets/background.png.
C9_Witness ==
    \E r \in DOMAIN render :
        /\ render[r].elements # Null
        /\ heap[render[r].elements.id] = EmptyTemplate
        /\ r \in DOMAIN publicFiles
        /\ publicFiles[r].width = LoadImage(FallbackBg, TRUE).img.width

\* the synthesized default: an empty list was rendered on the white canvas
C9_DefaultSurface ==
    \E r \in DOMAIN render :
        /\ render[r].elements # Null /\ LoopList(render[r]) = <<>>
        /\ render[r].response # Null /\ render[r].response.status = 200
        /\ render[r].bgImage = DefaultCanvas
        /\ render[r].response.image.width = DefaultSize

\* C10: no step of a render changes a template object, the content of the
\* shared template (background, element list, every element field), the
\* template file or the request's data.
C10_RenderLeavesTemplate ==
    [][\A r \in DOMAIN render :
          render'[r] # render[r] =>
             /\ \A id \in ObjectIds : heap[id] # Undefined => heap'[id] = heap[id]
             /\ templateDefinition # Null =>
                   /\ templateDefinition' # Null
                   /\ heap'[templateDefinition'.id] = heap[templateDefinition.id]
             /\ templateFile' = templateFile
             /\ render[r].pc # "idle" => render'[r].data = render[r].data]_vars

\* C10 witness: a render of the boot template with placeholders resolved from
\* its data was answered with an image, the template being as it was loaded.
C10_Witness ==
    \E r \in DOMAIN render :
        /\ render[r].response # Null /\ render[r].response.status = 200
        /\ render[r].elements = Ref(0)
        /\ <<"photo">> \in DOMAIN render[r].data
        /\ heap[0] = BootTemplate

----------------------------------------------------------------------------
(* What the claims about the painting of one element say *)

\* the element has been painted and it is a rectangle
PaintedRectangle ==
    /\ fnName = "paint" /\ fnResult.done
    /\ fnArgs.element.type = Str(<<"rectangle">>)

\* the path of the paint step that was made last
LastPath(rs) == rs.canvas.ops[Len(rs.canvas.ops)].path

\* twice the radius the claim asks for: the requested radius limited to
\* [0, min(width, height) / 2], zero when there is none
ClampedRadius2(radius, w, h) ==
    LET least == IF w <= h THEN w ELSE h
    IN  IF radius.t # "num" THEN 0
        ELSE IF radius.n <= 0 THEN 0
        ELSE IF 2 * radius.n > least THEN least
        ELSE 2 * radius.n

\* pixel (px, py) lies in the rectangle of the element
InBox(element, px, py) ==
    /\ element.x.n <= px /\ px < element.x.n + element.width.n
    /\ element.y.n <= py /\ py < element.y.n + element.height.n

\* C11: the corner radius of the path of a rectangle is the requested radius
\* clamped to [0, min(width, height) / 2]; a radius above the maximum gives the
\* path of the maximum, a radius that is zero, negative or absent the plain
\* rectangle.
C11_RadiusClamped ==
    PaintedRectangle =>
        LET element == fnArgs.element
            shape == LastPath(fnResult.after)[1]
            r2 == ClampedRadius2(element.radius, element.width.n, element.height.n)
        IN  /\ Len(LastPath(fnResult.after)) = 1
            /\ shape = [shape |-> "roundedRect", x |-> element.x.n, y |-> element.y.n,
                        width |-> element.width.n, height |-> element.height.n,
                        r2 |-> r2]
            /\ r2 = 0 =>
                  \A px \in 0..MaxProbe, py \in 0..MaxProbe :
                     OpCovers(fnResult.after.canvas.ops[Len(fnResult.after.canvas.ops)],
                              px, py) <=> InBox(element, px, py)

\* C11 witness: a rectangle whose requested radius is above half its smaller
\* side was painted with the radius of half that side.
C11_Witness ==
    /\ PaintedRectangle
    /\ fnArgs.element.radius.t = "num"
    /\ fnArgs.element.width.n = 4 /\ fnArgs.element.height.n = 3
    /\ fnArgs.element.radius.n = 2
    /\ LastPath(fnResult.after)[1].r2 = 3

\* the element has been painted and it is an image
PaintedImage ==
    /\ fnName = "paint" /\ fnResult.done
    /\ fnArgs.element.type = Str(<<"image">>)

\* the smaller side of the element's box
LeastSide(element) ==
    IF element.width.n <= element.height.n THEN element.width.n ELSE element.height.n

\* four times the squared distance of the centre of pixel (px, py) from the
\* centre (x + w/2, y + h/2) of the element's box
Distance2(element, px, py) ==
    (2 * px + 1 - 2 * element.x.n - element.width.n)
        * (2 * px + 1 - 2 * element.x.n - element.width.n)
    + (2 * py + 1 - 2 * element.y.n - element.height.n)
        * (2 * py + 1 - 2 * element.y.n - element.height.n)

\* pixel (px, py) lies in the circle of radius min(w, h)/2 + extra2/4 around
\* the centre of the element's box
InCircle(element, extra2, px, py) ==
    Distance2(element, px, py)
        <= (LeastSide(element) + extra2) * (LeastSide(element) + extra2)

\* the colour of pixel (px, py) once the first n paint steps are made
PixelAfter(rs, n, px, py) == PixelOf(rs.canvas.ops, n, px, py)

\* C12: painting the image of an element with clip == circle changes no pixel
\* outside the circle of radius min(w, h)/2 centred in its bounding box.
C12_ClipKeepsOutside ==
    (PaintedImage /\ fnArgs.element.clip = Str(<<"circle">>)) =>
        LET after == fnResult.after
            n == Len(after.canvas.ops)
        IN  /\ after.canvas.ops[n].kind = "drawImage"
            /\ \A px \in 0..MaxProbe, py \in 0..MaxProbe :
                  ~InCircle(fnArgs.element, 0, px, py) =>
                     PixelAfter(after, n, px, py) = PixelAfter(after, n - 1, px, py)

\* C12 witness: a clipped image was painted; a pixel of its box outside the
\* circle kept its colour and a pixel inside the circle shows the image.
C12_Witness ==
    /\ PaintedImage /\ fnArgs.element.clip = Str(<<"circle">>)
    /\ \E px \in 0..MaxProbe, py \in 0..MaxProbe :
          /\ InBox(fnArgs.element, px, py)
          /\ ~InCircle(fnArgs.element, 0, px, py)
          /\ PixelAt(fnResult.after.canvas, px, py) = PixelAt(fnResult.before.canvas, px, py)
    /\ \E px \in 0..MaxProbe, py \in 0..MaxProbe :
          /\ InCircle(fnArgs.element, 0, px, py)
          /\ PixelAt(fnResult.after.canvas, px, py) = <<"image", "photo">>

\* the border the claims speak of: an object with a positive width and a colour
ProperBorder(element) ==
    /\ element.border.t = "object"
    /\ element.border.width.t = "num" /\ element.border.width.n > 0
    /\ element.border.color.t = "str" /\ Len(element.border.color.s) > 0

\* the arc around the centre of the element's box of radius
\* min(w, h)/2 + extra2/4, in doubled coordinates
CentredArc(element, extra2) ==
    <<[shape |-> "arc", cx2 |-> 2 * element.x.n + element.width.n,
       cy2 |-> 2 * element.y.n + element.height.n,
       rad2 |-> LeastSide(element) + extra2]>>

\* C14: with a circular clip and a border of width b the disc has radius
\* min(w, h)/2 + b/2 and the image circle radius min(w, h)/2 around the same
\* centre, so the ring of border colour around the image is b/2 wide.
C14_RingHalfBorderWidth ==
    (PaintedImage /\ fnArgs.element.clip = Str(<<"circle">>)
                  /\ ProperBorder(fnArgs.element)) =>
        LET element == fnArgs.element
            b == element.border.width.n
            after == fnResult.after
            n == Len(after.canvas.ops)
        IN  /\ n = Len(fnResult.before.canvas.ops) + 2
            /\ after.canvas.ops[n - 1].kind = "fill"
            /\ after.canvas.ops[n - 1].path = CentredArc(element, b)
            /\ after.canvas.ops[n].kind = "drawImage"
            /\ after.canvas.ops[n].clip = <<CentredArc(element, 0)>>
            /\ \A px \in 0..MaxProbe, py \in 0..MaxProbe :
                  PixelAt(after.canvas, px, py) =
                     IF px >= after.canvas.width \/ py >= after.canvas.height
                     THEN <<"outside">>
                     ELSE IF InCircle(element, 0, px, py) THEN <<"image", "photo">>
                     ELSE IF InCircle(element, b, px, py) THEN element.border.color.s
                     ELSE PixelAt(fnResult.before.canvas, px, py)

\* C14 witness: around a clipped image with a border of width 2 a pixel
\* between the two circles shows the border colour.
C14_Witness ==
    /\ PaintedImage /\ fnArgs.element.clip = Str(<<"circle">>)
    /\ ProperBorder(fnArgs.element) /\ fnArgs.element.border.width.n = 2
    /\ \E px \in 0..MaxProbe, py \in 0..MaxProbe :
          /\ ~InCircle(fnArgs.element, 0, px, py)
          /\ InCircle(fnArgs.element, 2, px, py)
          /\ PixelAt(fnResult.after.canvas, px, py) = <<"#0000FF">>
    /\ \E px \in 0..MaxProbe, py \in 0..MaxProbe :
          PixelAt(fnResult.after.canvas, px, py) = <<"image", "photo">>

\* the border disc of the element was painted: a fill precedes its image
DiscPainted ==
    \E k \in 1..Len(fnResult.after.canvas.ops) :
        /\ k > Len(fnResult.before.canvas.ops)
        /\ fnResult.after.canvas.ops[k].kind = "fill"

\* C15: the border disc is painted exactly when the element has clip ==
\* circle and a border with a positive width and a colour.
C15_BorderExactlyWhen ==
    PaintedImage =>
        (DiscPainted <=>
            (fnArgs.element.clip = Str(<<"circle">>) /\ ProperBorder(fnArgs.element)))

----------------------------------------------------------------------------
(* What the claims about the image elements of a render say *)

\* the request is suspended in the acquisition of the image of element rs.idx
Acquiring(rs) == rs.pc \in {"awaitFetch", "awaitArrayBuffer", "awaitDecode", "awaitLocal"}

\* paint step k of the surface is the fill of a disc
IsDisc(rs, k) ==
    /\ rs.canvas.ops[k].kind = "fill"
    /\ rs.canvas.ops[k].path[1].shape = "arc"

\* element i of the request's list is an image with a circular clip and a border
RingedImage(rs, i) ==
    /\ i \in 1..Len(LoopList(rs))
    /\ LoopList(rs)[i].type = Str(<<"image">>)
    /\ LoopList(rs)[i].clip = Str(<<"circle">>)
    /\ ProperBorder(LoopList(rs)[i])

\* C13: the border disc of an image element is painted after the element's
\* image has been acquired and immediately before its clipped image, no paint
\* step of another element coming between the two.
C13_DiscJustBeforeImage ==
    \A r \in DOMAIN render :
        LET rs == render[r]
        IN  HasSurface(rs) =>
              /\ Acquiring(rs) => PaintSteps(rs, rs.idx) = {}
              /\ \A k \in 1..Len(rs.canvas.ops) :
                    /\ IsDisc(rs, k) =>
                          /\ k < Len(rs.canvas.ops)
                          /\ rs.canvas.ops[k + 1].kind = "drawImage"
                          /\ rs.canvas.ops[k + 1].el = rs.canvas.ops[k].el
                          /\ RingedImage(rs, rs.canvas.ops[k].el)
                    /\ (rs.canvas.ops[k].kind = "drawImage"
                            /\ RingedImage(rs, rs.canvas.ops[k].el)) =>
                          /\ k > 1
                          /\ IsDisc(rs, k - 1)
                          /\ rs.canvas.ops[k - 1].el = rs.canvas.ops[k].el

\* C13 witness: a render of the boot template painted the disc of its photo
\* and then the photo, after a rectangle and before another.
C13_Witness ==
    \E r \in DOMAIN render :
        /\ LoopFinished(render[r])
        /\ RingedImage(render[r], 2)
        /\ \E k \in 2..(Len(render[r].canvas.ops) - 1) :
              /\ IsDisc(render[r], k) /\ render[r].canvas.ops[k].el = 2
              /\ render[r].canvas.ops[k + 1].kind = "drawImage"
              /\ PaintSteps(render[r], 3) # {}

----------------------------------------------------------------------------
(* What the claims about the stored template say *)

\* the payload has an `elements` field that is an array
HasElementsArray(payload) ==
    /\ "elements" \in DOMAIN payload
    /\ payload.elements.t = "array"

\* the answer to a rejected replace
ValidationError == [status |-> 400, error |-> "Invalid template format"]

\* C16: a replace is accepted exactly when its payload has an `elements`
\* field that is an array, whatever the array holds; a rejected replace is
\* answered with a validation error and leaves the in-memory template and the
\* template file as they were.
C16_PutValidation ==
    [][\A p \in DOMAIN put :
          (put[p].pc = "idle" /\ put'[p].pc # "idle") =>
             IF HasElementsArray(heap'[p])
             THEN /\ put'[p].pc = "awaitWrite"
                  /\ put'[p].response # ValidationError
             ELSE /\ put'[p].pc = "done"
                  /\ put'[p].response = ValidationError
                  /\ templateDefinition' = templateDefinition
                  /\ templateFile' = templateFile]_vars

\* C16 witness: a replace whose elements are a string was answered with the
\* validation error, the template of startup and its file being in place.
C16_Witness ==
    \E p \in DOMAIN put :
        /\ put[p].response = ValidationError
        /\ heap[p] = Template(Undefined, Str(<<"elements">>))
        /\ templateDefinition = Ref(0)
        /\ heap[0] = BootTemplate
        /\ templateFile = [exists |-> TRUE, json |-> BootTemplate]

\* C17: whenever the in-memory template is not null its `elements` is an
\* array, after startup as after any replace, and the list a render's loop is
\* over is an array.
C17_ElementsAlwaysArray ==
    /\ templateDefinition # Null => HasElementsArray(heap[templateDefinition.id])
    /\ \A r \in DOMAIN render :
          render[r].elements # Null => HasElementsArray(heap[render[r].elements.id])

----------------------------------------------------------------------------
(* What the claims about failed and concurrent renders say *)

\* the request ended in the catch block while acquiring the image of the
\* element its loop was at
FailedAcquiring(rs) ==
    /\ rs.pc = "done" /\ rs.thrown # Null
    /\ HasSurface(rs)
    /\ rs.idx \in 1..Len(LoopList(rs))
    /\ LoopList(rs)[rs.idx].type = Str(<<"image">>)
    /\ AcquisitionFails(LoopList(rs)[rs.idx], rs.data)

\* C19: the error of every failed acquisition of an image element's resource
\* carries the identity of the element (its name or index) and the underlying
\* cause (network status, decode error, not-found).
C19_ErrorNamesElementAndCause ==
    \A r \in DOMAIN render :
        FailedAcquiring(render[r]) =>
            /\ \/ "name" \in DOMAIN render[r].thrown
               \/ "index" \in DOMAIN render[r].thrown
            /\ \/ "status" \in DOMAIN render[r].thrown
               \/ render[r].thrown.cause \in {"loadImage", "fetch"}

----------------------------------------------------------------------------
(* Preview against render (unnamed/part_001) *)

\* the families a font string names, in order: what follows "<size>px ",
\* without the quotes and the separators
FontFamilies(font) ==
    SelectSeq(SubSeq(font, 4, Len(font)), LAMBDA lexeme : lexeme \notin {"\"", ",", " "})

\* the face text is drawn in: the first family named that the host has, the
\* host's default face when there is none or a generic family comes first
FaceOf(font, fonts) ==
    LET families == FontFamilies(font)
        usable == {i \in 1..Len(families) : families[i] \in fonts \cup {"sans-serif"}}
        first == CHOOSE i \in usable : \A j \in usable : i <= j
    IN  IF usable = {} \/ families[first] = "sans-serif" THEN "default" ELSE families[first]

\* what an operation of the display list puts on the surface
LookOf(op, fonts) ==
    IF op.kind = "fillText" /\ op.text = <<>>
    THEN [kind |-> "nothing"]
    ELSE IF op.kind = "fillText"
    THEN [kind |-> "fillText", text |-> op.text, x |-> op.x, y |-> op.y,
          style |-> op.style, textAlign |-> op.textAlign, clip |-> op.clip,
          face |-> FaceOf(op.font, fonts), size |-> op.font[1]]
    ELSE op

SurfaceOf(rs, fonts) ==
    IF rs.canvas = Null THEN Null
    ELSE [width |-> rs.canvas.width, height |-> rs.canvas.height,
          ops |-> [k \in 1..Len(rs.canvas.ops) |-> LookOf(rs.canvas.ops[k], fonts)]]

BothRan == fnName = "preview" /\ fnResult.preview # Null /\ fnResult.render # Null

\* C18: /preview given template T and data D paints the same surface as
\* /render does when T is the stored template and D the request's data.
C18_PreviewPaintsAsRender ==
    BothRan =>
        SurfaceOf(fnResult.preview, fnArgs.env.fonts)
            = SurfaceOf(fnResult.render, fnArgs.env.fonts)

\* Where every family the template names is available and measureText reports
\* the size of the font, the two surfaces are the same.
PreviewAsRenderOnSoundHost ==
    (BothRan /\ fnArgs.env.ascentOk /\ fnArgs.template # TextTemplate
        /\ "DB-Adman-X" \in fnArgs.env.fonts) =>
        SurfaceOf(fnResult.preview, fnArgs.env.fonts)
            = SurfaceOf(fnResult.render, fnArgs.env.fonts)

----------------------------------------------------------------------------
(* Concurrent renders *)

\* the template the renders read: nothing replaces it
StoredTemplate == IF templateDefinition = Null THEN Null ELSE heap[templateDefinition.id]

\* request r rendered alone on the stored template and its own data
Alone(r) ==
    RunAlone("server", StoredTemplate, render[r].data,
             [assets |-> assetsBackground, fonts |-> {}, ascentOk |-> TRUE])

Finished(r) == render[r].pc \in {"encoded", "done"}

\* the surface of r, its failure and the file it saved are those of r alone
AsAlone(r) ==
    /\ render[r].canvas = Alone(r).canvas
    /\ render[r].thrown = Alone(r).thrown
    /\ r \in DOMAIN publicFiles => publicFiles[r] = Alone(r).canvas

\* what is on the surface of r so far is the beginning of what r alone paints
OwnSurface(r) ==
    render[r].canvas # Null =>
        /\ Alone(r).canvas # Null
        /\ render[r].canvas.width = Alone(r).canvas.width
        /\ render[r].canvas.height = Alone(r).canvas.height
        /\ Len(render[r].canvas.ops) <= Len(Alone(r).canvas.ops)
        /\ render[r].canvas.ops = SubSeq(Alone(r).canvas.ops, 1, Len(render[r].canvas.ops))

\* C20: in every interleaving of concurrent renders with no template replace,
\* the surface of a request holds at any time only what that request alone
\* paints, and the surface, the failure and the saved file a request ends
\* with are those the same template and data give when rendered alone.
C20_RendersIndependent ==
    \A r \in DOMAIN render :
        /\ OwnSurface(r)
        /\ Finished(r) => AsAlone(r)

\* one request has failed while another, with other data and part of its
\* surface painted, is still waiting for an image
C20_Witness ==
    \E r, q \in DOMAIN render :
        /\ render[r].pc = "done" /\ render[r].thrown # Null
        /\ render[q].pc \in {"awaitFetch", "awaitLocal"}
        /\ render[q].canvas # Null
        /\ render[q].data # render[r].data

----------------------------------------------------------------------------
(* GET and PUT /api/template *)

\* the in-memory template of the deployment's template handler
Memory == IF deployment = "api" THEN templateJs ELSE templateDefinition

\* what a get() called now and left alone answers with: the template in
\* memory, or for template.js with nothing in memory the template of the file
Stored ==
    IF Memory # Null THEN heap[Memory.id]
    ELSE IF deployment = "api" /\ templateFile.exists THEN templateFile.json
    ELSE Null

Succeeded(p) == put[p].pc = "done" /\ put[p].response.status = 200

\* this step is the return of put p
Returns(p) == put[p].pc # "done" /\ put'[p].pc = "done"

\* this step is a get g from its call to its answer
Answers(g) == get[g].pc = "idle" /\ get'[g].pc = "done"

\* put(T) returns success with T stored; once a put has succeeded only the
\* success of a put changes what is stored, a put that returns a failure
\* changes nothing, and a get called then answers with what is stored
GetAfterPut ==
    /\ \A p \in DOMAIN put :
          Returns(p) =>
             IF put'[p].response.status = 200
             THEN Stored' = heap'[p]
             ELSE Stored' = Stored
    /\ ((\E p \in DOMAIN put : Succeeded(p)) /\ Stored' # Stored) =>
          \E p \in DOMAIN put : Returns(p) /\ put'[p].response.status = 200
    /\ \A g \in DOMAIN get :
          (Answers(g) /\ \E p \in DOMAIN put : Succeeded(p)) =>
             get'[g].response = [status |-> 200, body |-> Stored]

\* C21: after put(T) has returned success and with no later successful put,
\* get() returns T; a put that fails validation or fails to persist does not
\* change what get() returns.
C21_GetReturnsLastPut == [][GetAfterPut]_vars

\* The same for server.js alone.
GetReturnsLastPutOnServer == [][deployment = "server" => GetAfterPut]_vars

----------------------------------------------------------------------------
(* Text alignment, colours and clip of successive elements *)

\* the loop has dealt with element k of the list
Dealt(k) ==
    /\ fnName = "elements"
    /\ \/ fnResult.idx > k
       \/ fnResult.idx = k /\ fnResult.pc = "done"

\* the operations element k has put on the surface
OpsOf(k) == SelectSeq(fnResult.canvas.ops, LAMBDA op : op.el = k)

\* left, right or center whatever the case of the letters, left otherwise
AlignmentOf(value) ==
    CASE value \in {Str(<<"left">>), Str(<<"LEFT">>)} -> "left"
      [] value \in {Str(<<"right">>), Str(<<"Right">>)} -> "right"
      [] value \in {Str(<<"center">>), Str(<<"CENTER">>)} -> "center"
      [] OTHER -> "left"

\* C22: a text element is drawn with its align when that is left, right or
\* center in any case of letters and with left for every other value, and no
\* value of align fails the render.
C22_AlignOrLeft ==
    (Dealt(2) /\ fnArgs.items[2].type = Str(<<"text">>)) =>
        /\ fnResult.pc # "done"
        /\ Len(OpsOf(2)) = 1
        /\ OpsOf(2)[1].kind = "fillText"
        /\ OpsOf(2)[1].textAlign = AlignmentOf(fnArgs.items[2].align)

\* The same for the values of align that are strings, absent, null or 0.
AlignOrLeftOfStrings ==
    (Dealt(2) /\ fnArgs.items[2].type = Str(<<"text">>)
        /\ fnArgs.items[2].align # Num(5)) =>
        /\ fnResult.pc # "done"
        /\ Len(OpsOf(2)) = 1
        /\ OpsOf(2)[1].textAlign = AlignmentOf(fnArgs.items[2].align)

\* the colour an element asks for: its color field resolved on the data,
\* #000000 when the field is absent
ColourAsked(element, data) ==
    resolvePlaceholders(Nullish(element.color, Str(<<"#000000">>)), data)

\* C23: a rectangle or text element whose color is absent or resolves to the
\* empty string is painted in #000000, and one whose color resolves to a
\* colour in that colour, whatever the elements before it have painted.
C23_ColourOfOwnField ==
    (Dealt(2) /\ fnResult.pc # "done"
        /\ ColourAsked(fnArgs.items[2], fnArgs.data).s \in CssColors \cup {<<>>}) =>
        /\ Len(OpsOf(2)) = 1
        /\ OpsOf(2)[1].style =
              IF ColourAsked(fnArgs.items[2], fnArgs.data).s = <<>>
              THEN <<"#000000">>
              ELSE ColourAsked(fnArgs.items[2], fnArgs.data).s

\* The same for the elements whose color is absent or resolves to a colour.
ColourOfOwnFieldWhenGiven ==
    (Dealt(2) /\ fnResult.pc # "done"
        /\ ColourAsked(fnArgs.items[2], fnArgs.data).s \in CssColors) =>
        /\ Len(OpsOf(2)) = 1
        /\ OpsOf(2)[1].style = ColourAsked(fnArgs.items[2], fnArgs.data).s

\* C24: when the paint of an element starts no clip region is active, so
\* what follows a circle-clipped image is painted unclipped; the clip is in
\* force for the image of its own element only.
C24_ClipReleased ==
    fnName = "elements" =>
        /\ fnResult.ctx.clip = <<>>
        /\ fnResult.ctx.stack = <<>>
        /\ \A k \in 1..Len(fnResult.canvas.ops) :
              fnResult.canvas.ops[k].clip # <<>> =>
                 /\ fnResult.canvas.ops[k].kind = "drawImage"
                 /\ fnArgs.items[fnResult.canvas.ops[k].el].clip = Str(<<"circle">>)

\* a circle-clipped image has been drawn under its clip and the element
\* after it has been painted
C24_Witness ==
    /\ Dealt(2)
    /\ fnArgs.items[1].clip = Str(<<"circle">>)
    /\ \E k \in 1..Len(OpsOf(1)) : OpsOf(1)[k].clip # <<>>
    /\ Len(OpsOf(2)) = 1
    /\ OpsOf(2)[1].clip = <<>>

----------------------------------------------------------------------------
(* Acquisition of an image element's source *)

\* request r is at an image element of the template
AtImage(r) ==
    /\ render[r].elements # Null
    /\ render[r].idx \in 1..Len(heap[render[r].elements.id].elements.items)
    /\ CurrentElement(render[r], heap).type = Str(<<"image">>)

\* the source of that element, its placeholders resolved
SourceOf(r) ==
    resolvePlaceholders(Nullish(CurrentElement(render[r], heap).source, Str(<<>>)),
                        render[r].data)

IsUrl(source) ==
    source.t = "str" /\ source.s # <<>> /\ source.s[1] \in {"http://", "https://"}

\* C25: the source of an image element is fetched exactly when it starts with
\* http:// or https:// and is otherwise read from the path itself when that
\* is absolute and from the path under the application root when not; a
\* fetch answered with a status that is no success ends the render with an
\* error that holds that status, nothing of the element painted, no file
\* written.
C25_FetchOrLocalRead ==
    \A r \in DOMAIN render :
        /\ render[r].pc \in {"awaitFetch", "awaitArrayBuffer", "awaitDecode"} =>
              /\ AtImage(r) /\ IsUrl(SourceOf(r))
              /\ render[r].source = SourceOf(r).s
        /\ render[r].pc = "awaitLocal" =>
              /\ AtImage(r) /\ ~IsUrl(SourceOf(r))
              /\ render[r].source =
                    IF SourceOf(r).s # <<>> /\ SourceOf(r).s[1] \in {"/", "/app/"}
                    THEN SourceOf(r).s ELSE <<"/app/">> \o SourceOf(r).s
        /\ (render[r].pc = "done" /\ AtImage(r) /\ IsUrl(SourceOf(r))
               /\ Fetch(SourceOf(r).s).settled = "resolved"
               /\ ~Fetch(SourceOf(r).s).ok) =>
              /\ render[r].thrown # Null
              /\ "status" \in DOMAIN render[r].thrown
              /\ render[r].thrown.status = Fetch(SourceOf(r).s).status
              /\ render[r].response.status = 500
              /\ \A k \in 1..Len(render[r].canvas.ops) :
                    render[r].canvas.ops[k].el # render[r].idx
              /\ r \notin DOMAIN publicFiles

\* a render has ended on the 404 of its photo, with the elements before the
\* image painted
C25_Witness ==
    \E r \in DOMAIN render :
        /\ render[r].pc = "done"
        /\ AtImage(r)
        /\ render[r].data # <<>>
        /\ render[r].thrown # Null
        /\ "status" \in DOMAIN render[r].thrown
        /\ render[r].thrown.status = 404
        /\ Len(render[r].canvas.ops) > 1

----------------------------------------------------------------------------
(* Renders after a template replace *)

\* a replace has returned success and none is in flight
Replaced ==
    /\ \E p \in DOMAIN put : Succeeded(p)
    /\ \A p \in DOMAIN put : put[p].pc \in {"idle", "done"}

\* where each render is in its handler
RenderPcs == [r \in DOMAIN render |-> render[r].pc]

\* this step is the start of render r
Starts(r) == render[r].pc = "idle" /\ render'[r].pc # "idle"

\* the template render r reads when it starts is that of a replace that has
\* succeeded; a render that finds no template in memory reads the file later
StartsOnReplaced(r) ==
    \/ deployment = "api" /\ templateDefinition = Null /\ render'[r].pc = "awaitTemplate"
    \/ /\ templateDefinition # Null
       /\ \E p \in DOMAIN put :
             /\ Succeeded(p)
             /\ heap[templateDefinition.id] = heap[p]
             /\ render'[r].background = heap[p].background

\* C26: a render of the stored template that starts after a template replace
\* has returned success reads the replaced template, not an older one, in
\* server.js and in the handlers of api/.
C26_RenderUsesReplaced ==
    [][\A r \in DOMAIN render : (Replaced /\ Starts(r)) => StartsOnReplaced(r)]_RenderPcs

\* The same for server.js alone.
RenderUsesReplacedOnServer ==
    [][\A r \in DOMAIN render :
          (deployment = "server" /\ Replaced /\ Starts(r)) => StartsOnReplaced(r)]_RenderPcs

----------------------------------------------------------------------------
(* The file is written before the memory is updated *)

\* C27: the in-memory template becomes the template of a replace only once
\* the file write of that replace has completed; a replace whose file write
\* fails answers with a failure and leaves the in-memory template as it was,
\* and the in-memory template is never that of a replace whose write has not
\* completed.
C27_WriteBeforeMemory ==
    [][\A p \in DOMAIN put :
          /\ (Memory' # Memory /\ Memory' = Ref(p)) => put[p].pc = "written"
          /\ (put[p].pc = "writeFailed" /\ put'[p] # put[p]) =>
                /\ put'[p].pc = "done"
                /\ put'[p].response.status = 500
                /\ Memory' = Memory
          /\ Memory' = Ref(p) => put'[p].pc = "done" /\ put'[p].response.status = 200]_vars

\* a replace has failed on its file write while the in-memory template is
\* that of another replace, whose write had completed
C27_Witness ==
    \E p, q \in DOMAIN put :
        /\ put[p].pc = "done" /\ put[p].response.status = 500
        /\ Succeeded(q)
        /\ Memory = Ref(q)
        /\ templateFile = JsonStringify(heap[q])

----------------------------------------------------------------------------
(* Memory and file after concurrent replaces *)

\* what loadTemplateDefinition gives at a restart
RestartLoads == IF templateFile.exists THEN templateFile.json ELSE Null

\* the template in the memory of server.js
InMemory == IF templateDefinition = Null THEN Null ELSE heap[templateDefinition.id]

\* C28: in server.js, whenever no replace is in flight the in-memory template
\* is the template of the file, the one a restart would load, whatever the
\* interleaving of the replaces before.
C28_MemoryIsFile ==
    (deployment = "server" /\ \A p \in DOMAIN put : put[p].pc \in {"idle", "done"}) =>
        InMemory = RestartLoads

\* The same after one replace that succeeded, the next one not yet called.
MemoryIsFileInSequence ==
    (/\ deployment = "server"
     /\ \A p \in DOMAIN put : put[p].pc \in {"idle", "done"}
     /\ put[1].pc = "done" /\ put[1].response.status = 200
     /\ put[2].pc = "idle") =>
        InMemory = RestartLoads

----------------------------------------------------------------------------
(* Placeholder resolution is one pass *)

RECURSIVE Expand(_, _)
\* s with every lexeme X replaced by the lexemes of text
Expand(s, text) ==
    IF s = <<>> THEN <<>>
    ELSE (IF Head(s) = "X" THEN text ELSE <<Head(s)>>) \o Expand(Tail(s), text)

\* the value of key a is a string that holds a token
TokenInData ==
    /\ <<"a">> \in DOMAIN rpData
    /\ rpData[<<"a">>] \in {Str(Token("a")), Str(Token("b"))}

\* the result is that of the same call with X for the value of a, the value
\* of a put back for X
SubstitutedVerbatim ==
    (rpPc = "returned" /\ rpValue.t = "str" /\ TokenInData) =>
        rpResult =
           Str(Expand(resolvePlaceholders(rpValue,
                                          [rpData EXCEPT ![<<"a">>] = Str(<<"X">>)]).s,
                      rpData[<<"a">>].s))

\* C29: what is substituted for a token is not scanned again: a value of the
\* data that holds a token stands in the result as it is, as any text without
\* a token put in its place would, and a call that has returned has returned
\* a value of the kind it was given.
C29_SinglePass ==
    /\ rpPc = "returned" => rpResult.t = rpValue.t
    /\ SubstitutedVerbatim

\* {{a}}-{{ b }} has been resolved on data whose a is the text {{b}} and
\* whose b is Y: the token of the data is in the result as it was
C29_Witness ==
    /\ rpPc = "returned"
    /\ rpValue = Str(Token("a") \o <<"-">> \o <<"{", "{", " ", "b", " ", "}", "}">>)
    /\ rpData = (<<"a">> :> Str(Token("b"))) @@ (<<"b">> :> Str(<<"Y">>))
    /\ rpResult = Str(Token("b") \o <<"-", "Y">>)

----------------------------------------------------------------------------
(* The preview and the stored template *)

\* what the preview paints, from the request alone
AskedPreview == RunAlone("preview", fnArgs.template, fnArgs.data, fnArgs.env)

\* a step of the preview request
PreviewStep ==
    /\ templateDefinition' = templateDefinition
    /\ heap' = heap
    /\ templateFile' = templateFile
    /\ PreviewIncomplete(fnArgs) =>
          /\ fnResult'.pc = "done"
          /\ fnResult'.response.status = 400
          /\ fnResult'.run = Null
          /\ publicFiles' = publicFiles
    /\ (~PreviewIncomplete(fnArgs) /\ fnResult.pc = "idle") => fnResult'.run = AskedPreview
    /\ fnResult.pc = "awaitWrite" =>
          \/ publicFiles' = publicFiles
          \/ publicFiles' = (0 :> AskedPreview.canvas) @@ publicFiles

\* C30: a preview request leaves the in-memory template and the template
\* file as they are, whatever they hold and while they are being replaced;
\* what it paints and saves is the painting of the request's own template
\* with the request's own data; with no template or no data it answers 400,
\* paints nothing and writes no file.
C30_PreviewLeavesStore == [][PreviewStep]_<<fnResult.pc>>

\* a preview of a template has been saved while another template, put
\* meanwhile, is the stored one
C30_Witness ==
    /\ fnName = "previewStore"
    /\ fnResult.pc = "done"
    /\ fnResult.response.status = 200
    /\ 0 \in DOMAIN publicFiles
    /\ put[1].pc = "done"
    /\ templateDefinition = Ref(1)
    /\ heap[1] # fnArgs.template
    /\ fnArgs.template = TextTemplate

====
